---- MODULE Spec2Model ----
(***************************************************************************)
(* A model of chimedb.core: the per-thread connection broker               *)
(* (connectdb.connect / close / current_connector), configuration          *)
(* resolution (connect, _try_rc_files, BaseConnector.from_dict), the ORM   *)
(* entry point (orm.connect_database) and the atomic decorator             *)
(* (context.atomic).                                                       *)
(*                                                                         *)
(* Objects (connectors, peewee database handles) live in two heaps indexed *)
(* by small integers; 0 is None.  A new object takes the smallest index    *)
(* that no live object holds, and objects nothing refers to are dropped.   *)
(***************************************************************************)
EXTENDS Integers, Sequences, FiniteSets, TLC

VARIABLES
    TEST_ENABLE,   \* connectdb._TEST_ENABLE
    environ,       \* os.environ, restricted to the variables connectdb reads
    files,         \* the file system: what open()+yaml.safe_load give per path
    RC_FILES,      \* connectdb._RC_FILES (a module global, mutated by _try_rc_files)
    configMod,     \* TRUE iff the module chimedb.config can be imported
    up,            \* per chimedb.config connector: does MySQLdb.connect succeed
    ssh,           \* per chimedb.config connector: how an ssh tunnel to it fares
    foreign,       \* per chimedb.config connector: something else listens on
                   \* the local port the connector remembers
    ALL_RANKS,     \* connectdb.ALL_RANKS
    mpi_rank,      \* MPI.COMM_WORLD.Get_rank(), -1 when mpi4py is not there
    conns,         \* heap of connector objects
    handles,       \* heap of peewee database objects
    slot,          \* _threadlocal.current_connector / current_connector_RW
    proxy,         \* orm.database_proxy.obj (a module global)
    stores,        \* the databases themselves
    scopes,        \* per thread: the stack of open atomic_wrapper frames
    query_cache,   \* name_table._query_cache, keyed by class name
    tables,        \* per store and table: the rows, by id
    locals,        \* per thread: the local variables of the name_table
                   \* method it is in
    pc,            \* per thread: position inside atomic_wrapper
    last           \* what the most recent call did and how it ended

\* the network and the cluster runtime around the process
world == <<ssh, foreign, ALL_RANKS, mpi_rank>>

\* the tables of the name_table models and the cache of their rows
orm == <<query_cache, tables, locals>>

vars == <<TEST_ENABLE, environ, files, RC_FILES, configMod, up, world, orm,
          conns, handles, slot, proxy, stores, scopes, pc, last>>

(***************************************************************************)
(* Bounds                                                                  *)
(***************************************************************************)
NThreads == 2
MaxRcFiles == 4
MaxVal == 1
MaxDepth == 2
MaxId == 2

Threads == 1..NThreads
None == 0

(***************************************************************************)
(* Names                                                                   *)
(***************************************************************************)
EnvVars == {"CHIMEDB_TEST_ENABLE", "CHIMEDB_SQLITE", "CHIMEDBRC",
            "CHIMEDB_TEST_SQLITE", "CHIMEDB_TEST_RC"}

\* a list with the home directory first
DefaultRcFilesHomeFirst ==
    <<"~/.chimedbrc", "./.chimedbrc", "/etc/chime/chimedbrc">>

\* connectdb._RC_FILES as built at import time
DefaultRcFiles == <<"./.chimedbrc", "~/.chimedbrc", "/etc/chime/chimedbrc">>

\* paths the environment variables CHIMEDBRC / CHIMEDB_TEST_RC may name
EnvRcPaths == {"/w/prod.yaml", "/w/test.yaml", "/w/my_chimedbrc"}

Paths == {DefaultRcFiles[i] : i \in 1..Len(DefaultRcFiles)} \cup EnvRcPaths

\* a test that knows the default locations only
ContainsChimedbrcDefaults(name) ==
    name \in {"./.chimedbrc", "~/.chimedbrc", "/etc/chime/chimedbrc"}

\* the test `"chimedbrc" in name` on the names above
ContainsChimedbrc(name) ==
    name \in {"./.chimedbrc", "~/.chimedbrc", "/etc/chime/chimedbrc",
              "/w/my_chimedbrc"}

\* the stores: three sqlite files, a sqlite file in a directory that does
\* not exist, the shared in-memory sqlite database and the networked
\* database the chimedb.config connectors lead to
Stores == {"prod.db", "test.db", "rc.db", "nodir", ":memory:", "net"}

\* the stores sqlite3.connect cannot open in any mode
Unreachable == {"nodir"}

\* the connectors chimedb.config provides: connectors and connectors_rw
ConfigRO == <<1, 2>>
ConfigRW == <<3, 4>>
ConfigIds == {1, 2, 3, 4}

\* the four of chimedb.config, two per thread, and two being built
ConnIds == 1..(6 + 2 * NThreads)
\* enough for every handle that can be referred to at once, and one more
HandleIds == 1..(6 + 2 * NThreads + NThreads * MaxDepth)

Range(s) == {s[i] : i \in 1..Len(s)}
Min(S) == CHOOSE x \in S : \A y \in S : x <= y

(***************************************************************************)
(* Database names: the strings handed to SqliteConnector                   *)
(***************************************************************************)
SqlitePaths == {"prod.db", "test.db", "rc.db", "/nodir/x.db"}

\* "file:" + db + "?mode=ro"  (SqliteConnector.__init__)
RoUriOf(db) ==
    CASE db = "prod.db" -> "file:prod.db?mode=ro"
      [] db = "test.db" -> "file:test.db?mode=ro"
      [] db = "rc.db"   -> "file:rc.db?mode=ro"
      [] db = "/nodir/x.db" -> "file:/nodir/x.db?mode=ro"

MemRO == "file::memory:?cache=shared&mode=ro"
MemRW == "file::memory:?cache=shared"

\* db.startswith("file:")
StartsWithFile(db) == db \notin SqlitePaths

\* what sqlite3.connect makes of the name: the store and the access mode
TargetOf(db) ==
    CASE db \in SqlitePaths \ {"/nodir/x.db"} -> [store |-> db, ro |-> FALSE]
      [] db = "/nodir/x.db"          -> [store |-> "nodir", ro |-> FALSE]
      [] db = "file:/nodir/x.db?mode=ro" -> [store |-> "nodir", ro |-> TRUE]
      [] db = "file:prod.db"         -> [store |-> "prod.db", ro |-> FALSE]
      [] db = "file:test.db"         -> [store |-> "test.db", ro |-> FALSE]
      [] db = "file:prod.db?mode=ro" -> [store |-> "prod.db", ro |-> TRUE]
      [] db = "file:test.db?mode=ro" -> [store |-> "test.db", ro |-> TRUE]
      [] db = "file:rc.db?mode=ro"   -> [store |-> "rc.db", ro |-> TRUE]
      [] db = MemRO                  -> [store |-> ":memory:", ro |-> TRUE]
      [] db = MemRW                  -> [store |-> ":memory:", ro |-> FALSE]
      [] db = "net"                  -> [store |-> "net", ro |-> FALSE]

(***************************************************************************)
(* Connector objects                                                       *)
(***************************************************************************)
\* a free cell of the connector heap
NoConn == [kind |-> "free", db |-> "", database |-> None,
           tunnel_host |-> FALSE, tunnel |-> "none", tunnel_port |-> None,
           args |-> <<>>]

\* a connector that takes the name as given for either role
SqliteConnectorAsGiven(db, read_write) ==
    [kind |-> "sqlite", db |-> db, database |-> None,
     tunnel_host |-> FALSE, tunnel |-> "none", tunnel_port |-> None,
     args |-> <<>>]

\* SqliteConnector.__init__
SqliteConnector(db, read_write) ==
    [kind |-> "sqlite",
     db |-> IF ~read_write /\ ~StartsWithFile(db) THEN RoUriOf(db) ELSE db,
     database |-> None,
     tunnel_host |-> FALSE, tunnel |-> "none", tunnel_port |-> None,
     args |-> <<>>]

\* MySQLConnector.__init__.  args keeps what it was constructed with ("None"
\* is Python's None); db is the store it leads to; tunnel_host says whether
\* `self._tunnel_host` is true.  _tunnel is "none" (None), "active" (a
\* forwarder that is_active) or "stopped" (a forwarder that is not);
\* _tunnel_port is None or the port bound last.
MySQLConnector(db, user, passwd, host, port, tunnel_host, tunnel_user, tunnel_identity) ==
    [kind |-> "mysql", db |-> "net", database |-> None,
     tunnel_host |-> tunnel_host \notin {"None", ""},
     tunnel |-> "none", tunnel_port |-> None,
     args |-> [db |-> db, user |-> user, passwd |-> passwd, host |-> host,
               port |-> port, tunnel_host |-> tunnel_host,
               tunnel_user |-> tunnel_user,
               tunnel_identity |-> tunnel_identity]]

\* a connector of chimedb.config, through the tunnel host given
ConfigVia(tunnel_host) ==
    MySQLConnector("chime", "chime", "", "db.host", 3306, tunnel_host,
                   "None", "None")

\* a connector of chimedb.config without tunnel
ConfigConnector == ConfigVia("None")

\* a candidate of a connector list: a connector built by this resolution
\* (id = 0: not yet on the heap) or an object of chimedb.config (id > 0)
Cand(id, obj) == [id |-> id, obj |-> obj]

\* The "chimedb" section of an RC file is a dict from keys to strings;
\* a key the section does not hold maps to Absent.
SectionKeys == {"db_type", "db", "user_ro", "passwd_ro", "user_rw",
                "passwd_rw", "host", "port", "tunnel_host", "tunnel_user",
                "tunnel_identity"}
Absent == "<absent>"

\* the sections of the RC files of the model, by what `files` calls them
SectionOf(content) ==
    [k \in SectionKeys |->
        CASE k = "db_type" -> IF content = "badtype" THEN "oracle"
                              ELSE "sqlite"
          [] k = "db" -> IF content = "sqlite" THEN "rc.db" ELSE Absent
          [] OTHER -> Absent]

\* str.lower() on the database types of the model
Lower(str) ==
    CASE str \in {"sqlite", "SQLite"} -> "sqlite"
      [] str \in {"mysql", "MySQL"} -> "mysql"
      [] OTHER -> str

\* int(port): -1 stands for the ValueError on a string that is no number
IntOf(port) ==
    CASE port = "3306" -> 3306
      [] port = "3307" -> 3307
      [] OTHER -> -1

\* from_dict giving both connectors the read-only credentials
from_dict_one_user(d, context) ==
    LET Raise(exc) ==
            [exc |-> exc, ro |-> <<>>, rw |-> <<>>, context |-> context]
        Of(k, default) == IF d[k] = Absent THEN default ELSE d[k]
        db_type == Of("db_type", "MySQL")
        My(user, passwd) ==
            MySQLConnector(d["db"], d[user], Of(passwd, ""), d["host"],
                           IntOf(Of("port", "3306")),
                           Of("tunnel_host", "None"),
                           Of("tunnel_user", "None"),
                           Of("tunnel_identity", "None"))
    IN  IF Lower(db_type) = "sqlite"
        THEN IF d["db"] = Absent THEN Raise("KeyError")
             ELSE [exc |-> "none",
                   ro |-> <<Cand(0, SqliteConnector(d["db"], FALSE))>>,
                   rw |-> <<Cand(0, SqliteConnector(d["db"], TRUE))>>,
                   context |-> context]
        ELSE IF Lower(db_type) = "mysql"
        THEN IF \E k \in {"db", "user_ro", "host"} : d[k] = Absent
             THEN Raise("KeyError")
             ELSE IF IntOf(Of("port", "3306")) = -1 THEN Raise("ValueError")
             ELSE IF d["user_rw"] = Absent THEN Raise("KeyError")
             ELSE [exc |-> "none",
                   ro |-> <<Cand(0, My("user_ro", "passwd_ro"))>>,
                   rw |-> <<Cand(0, My("user_ro", "passwd_ro"))>>,
                   context |-> context]
        ELSE Raise("ValueError")

\* BaseConnector.from_dict(d, context): the two single-item lists and the
\* context, or the exception: KeyError for a key the type needs and the
\* section lacks, ValueError for a port that is no number and for a type
\* that is neither sqlite nor mysql.  The arguments of the read-only
\* connector are evaluated before those of the read-write one.
from_dict(d, context) ==
    LET Raise(exc) ==
            [exc |-> exc, ro |-> <<>>, rw |-> <<>>, context |-> context]
        Of(k, default) == IF d[k] = Absent THEN default ELSE d[k]
        db_type == Of("db_type", "MySQL")
        My(user, passwd) ==
            MySQLConnector(d["db"], d[user], Of(passwd, ""), d["host"],
                           IntOf(Of("port", "3306")),
                           Of("tunnel_host", "None"),
                           Of("tunnel_user", "None"),
                           Of("tunnel_identity", "None"))
    IN  IF Lower(db_type) = "sqlite"
        THEN IF d["db"] = Absent THEN Raise("KeyError")
             ELSE [exc |-> "none",
                   ro |-> <<Cand(0, SqliteConnector(d["db"], FALSE))>>,
                   rw |-> <<Cand(0, SqliteConnector(d["db"], TRUE))>>,
                   context |-> context]
        ELSE IF Lower(db_type) = "mysql"
        THEN IF \E k \in {"db", "user_ro", "host"} : d[k] = Absent
             THEN Raise("KeyError")
             ELSE IF IntOf(Of("port", "3306")) = -1 THEN Raise("ValueError")
             ELSE IF d["user_rw"] = Absent THEN Raise("KeyError")
             ELSE [exc |-> "none",
                   ro |-> <<Cand(0, My("user_ro", "passwd_ro"))>>,
                   rw |-> <<Cand(0, My("user_rw", "passwd_rw"))>>,
                   context |-> context]
        ELSE Raise("ValueError")

(***************************************************************************)
(* Configuration resolution                                                *)
(***************************************************************************)
\* _have_envvar
HaveEnvvar(env, name) == env[name] # ""

\* a switch that changes the mode each time it is used
test_enable_flip(te) == ~te

\* test_enable(): the value of _TEST_ENABLE after the call
test_enable(te) == IF ~te THEN TRUE ELSE te

\* a test mode that leaves the list of RC files as it is when
\* CHIMEDB_TEST_RC is not set
RcFilesForKept(te, env, rcfiles) ==
    IF te
    THEN IF HaveEnvvar(env, "CHIMEDB_TEST_RC")
         THEN <<env["CHIMEDB_TEST_RC"]>>
         ELSE rcfiles
    ELSE IF HaveEnvvar(env, "CHIMEDBRC")
         THEN <<env["CHIMEDBRC"]>> \o rcfiles
         ELSE rcfiles

\* the first part of _try_rc_files: the list of files it goes on to read
RcFilesFor(te, env, rcfiles) ==
    IF te
    THEN IF HaveEnvvar(env, "CHIMEDB_TEST_RC")
         THEN <<env["CHIMEDB_TEST_RC"]>>
         ELSE <<>>
    ELSE IF HaveEnvvar(env, "CHIMEDBRC")
         THEN <<env["CHIMEDBRC"]>> \o rcfiles
         ELSE rcfiles

\* the loop of _try_rc_files over _RC_FILES from index i on.
\* kind: "conn" (a tuple from from_dict), "empty" (the dict() conn started
\* as), "none" (no file gave anything) or "raise"
RECURSIVE RcLoop(_, _, _, _)
RcLoop(rcfiles, i, fls, seen) ==
    IF i > Len(rcfiles)
    THEN [kind |-> "none", exc |-> "none", ro |-> <<>>, rw |-> <<>>,
          context |-> "none", opened |-> seen]
    ELSE LET f == rcfiles[i]
             Made(d) == [kind |-> IF d.exc = "none" THEN "conn" ELSE "raise",
                         exc |-> d.exc, ro |-> d.ro, rw |-> d.rw,
                         context |-> d.context, opened |-> seen \cup {f}]
         IN  IF fls[f] \in {"absent", "empty"}
             THEN RcLoop(rcfiles, i + 1, fls, seen \cup {f})
             ELSE IF fls[f] = "nosection"
             THEN [kind |-> "empty", exc |-> "none", ro |-> <<>>, rw |-> <<>>,
                   context |-> "none", opened |-> seen \cup {f}]
             ELSE Made(from_dict(SectionOf(fls[f]), f))

\* _try_rc_files
try_rc_files(te, env, fls, rcfiles) ==
    LET Looped(list, r) ==
            [kind |-> r.kind, exc |-> r.exc, ro |-> r.ro, rw |-> r.rw,
             context |-> r.context, opened |-> r.opened, rcfiles |-> list]
        With(list) ==
            IF te /\ HaveEnvvar(env, "CHIMEDB_TEST_RC")
               /\ ContainsChimedbrc(list[1])
            THEN [kind |-> "raise", exc |-> "OSError", ro |-> <<>>,
                  rw |-> <<>>, context |-> "none", opened |-> {},
                  rcfiles |-> list]
            ELSE Looped(list, RcLoop(list, 1, fls, {}))
    IN  With(RcFilesFor(te, env, rcfiles))

\* a last resort that makes the in-memory database outside test mode too
LastResortMemory(te, cfg, seen, rcf) ==
    IF te \/ ~cfg
    THEN [exc |-> "none",
          ro |-> <<Cand(0, SqliteConnector(MemRO, TRUE))>>,
          rw |-> <<Cand(0, SqliteConnector(MemRW, TRUE))>>,
          context |-> "_TEST_ENABLE", consulted |-> seen, rcfiles |-> rcf]
    ELSE [exc |-> "none",
          ro |-> [i \in 1..Len(ConfigRO) |-> Cand(ConfigRO[i], ConfigConnector)],
          rw |-> [i \in 1..Len(ConfigRW) |-> Cand(ConfigRW[i], ConfigConnector)],
          context |-> "chimedb.config",
          consulted |-> seen \cup {"chimedb.config"}, rcfiles |-> rcf]

\* connect when the RC files gave nothing: the in-memory database in test
\* mode, else the lists of chimedb.config, else NoRouteToDatabase
LastResort(te, cfg, seen, rcf) ==
    IF te
    THEN [exc |-> "none",
          ro |-> <<Cand(0, SqliteConnector(MemRO, TRUE))>>,
          rw |-> <<Cand(0, SqliteConnector(MemRW, TRUE))>>,
          context |-> "_TEST_ENABLE", consulted |-> seen, rcfiles |-> rcf]
    ELSE IF cfg
    THEN [exc |-> "none",
          ro |-> [i \in 1..Len(ConfigRO) |-> Cand(ConfigRO[i], ConfigConnector)],
          rw |-> [i \in 1..Len(ConfigRW) |-> Cand(ConfigRW[i], ConfigConnector)],
          context |-> "chimedb.config",
          consulted |-> seen \cup {"chimedb.config"}, rcfiles |-> rcf]
    ELSE [exc |-> "NoRouteToDatabase", ro |-> <<>>, rw |-> <<>>,
          context |-> "none",
          consulted |-> seen \cup {"chimedb.config"}, rcfiles |-> rcf]

\* connect, from the CHIMEDB_SQLITE test to the choice of the connector lists.
\* consulted: the sources read (environment variables, files, the module)
Resolve(te, env, fls, rcfiles, cfg) ==
    LET sqlite_var == IF te THEN "CHIMEDB_TEST_SQLITE" ELSE "CHIMEDB_SQLITE"
        rcvar == IF te THEN "CHIMEDB_TEST_RC" ELSE "CHIMEDBRC"
        Chosen(exc, ro, rw, context, seen, rcf) ==
            [exc |-> exc, ro |-> ro, rw |-> rw, context |-> context,
             consulted |-> seen, rcfiles |-> rcf]
        With(rc, seen) ==
            IF rc.kind = "raise"
            THEN Chosen(rc.exc, <<>>, <<>>, "none", seen, rc.rcfiles)
            ELSE IF rc.kind = "conn"
            THEN Chosen("none", rc.ro, rc.rw, rc.context, seen, rc.rcfiles)
            ELSE LastResort(te, cfg, seen, rc.rcfiles)
        Files(rc) == With(rc, {sqlite_var, rcvar} \cup rc.opened)
    IN  IF HaveEnvvar(env, sqlite_var)
        THEN Chosen("none",
                    <<Cand(0, SqliteConnector(env[sqlite_var], FALSE))>>,
                    <<Cand(0, SqliteConnector(env[sqlite_var], TRUE))>>,
                    sqlite_var, {sqlite_var}, rcfiles)
        ELSE Files(try_rc_files(te, env, fls, rcfiles))

(***************************************************************************)
(* Ranks and tunnels                                                       *)
(***************************************************************************)
\* a gate that lets every process through
connect_this_rank_always(all_ranks, rank) == TRUE

\* connect_this_rank(): rank is -1 when importing mpi4py fails
connect_this_rank(all_ranks, rank) ==
    IF all_ranks THEN TRUE
    ELSE IF rank = -1 THEN TRUE
    ELSE rank = 0

\* how the ssh side of a tunnel fares: the forwarder starts and its port
\* comes up, the constructor finds no authentication option, start() fails,
\* or the forwarder starts and the forwarded port is not reported up
SshStates == {"ok", "noauth", "nostart", "notup"}

\* tunnel_active(tunnel_port): listening says whether a TCP connect to that
\* port of localhost is answered
tunnel_active(tunnel_port, listening) ==
    IF tunnel_port = None THEN FALSE ELSE listening

\* whether something answers on the port connector c remembers: its own
\* forwarder while active, or whatever else got the port since
Listening(cs, fr, c) == cs[c].tunnel = "active" \/ fr[c]

\* ensure_route_to_database without the probe of the bound port
ensure_route_to_database_noprobe(obj, rank, sshc, listening) ==
    IF ~obj.tunnel_host \/ ~rank
    THEN [exc |-> "none", obj |-> obj, session |-> "none"]
    ELSE IF sshc = "noauth"
    THEN [exc |-> "NoRouteToDatabase", obj |-> obj, session |-> "none"]
    ELSE IF sshc = "nostart"
    THEN [exc |-> "NoRouteToDatabase",
          obj |-> [obj EXCEPT !.tunnel = "stopped"], session |-> "failed"]
    ELSE [exc |-> IF sshc = "notup" THEN "ConnectionError" ELSE "none",
          obj |-> [obj EXCEPT !.tunnel = "active", !.tunnel_port = 1],
          session |-> "started"]

\* MySQLConnector.ensure_route_to_database on connector object obj: the
\* exception, the object afterwards and what became of the forwarding
\* session it spawned ("none": no forwarder was constructed)
ensure_route_to_database(obj, rank, sshc, listening) ==
    IF ~obj.tunnel_host \/ tunnel_active(obj.tunnel_port, listening)
    THEN [exc |-> "none", obj |-> obj, session |-> "none"]
    ELSE IF ~rank
    THEN [exc |-> "none", obj |-> obj, session |-> "none"]
    ELSE IF sshc = "noauth"
    THEN [exc |-> "NoRouteToDatabase", obj |-> obj, session |-> "none"]
    ELSE IF sshc = "nostart"
    THEN [exc |-> "NoRouteToDatabase",
          obj |-> [obj EXCEPT !.tunnel = "stopped"], session |-> "failed"]
    ELSE [exc |-> IF sshc = "notup" THEN "ConnectionError" ELSE "none",
          obj |-> [obj EXCEPT !.tunnel = "active", !.tunnel_port = 1],
          session |-> "started"]

\* MySQLConnector.get_connection on connector object obj: upc says whether
\* MySQLdb.connect succeeds
get_connection(obj, rank, sshc, listening, upc) ==
    LET Shake(r) ==
            IF r.exc # "none"
            THEN [ok |-> FALSE, exc |-> r.exc, obj |-> r.obj,
                  session |-> r.session]
            ELSE IF upc
            THEN [ok |-> TRUE, exc |-> "none", obj |-> r.obj,
                  session |-> r.session]
            ELSE [ok |-> FALSE, exc |-> "ConnectionError",
                  obj |-> [r.obj EXCEPT
                             !.tunnel = IF @ = "active" THEN "stopped" ELSE @],
                  session |-> r.session]
    IN  Shake(ensure_route_to_database(obj, rank, sshc, listening))

(***************************************************************************)
(* Connection attempts                                                     *)
(***************************************************************************)
\* connector.get_connection(): TRUE iff it returns a connection, FALSE iff it
\* raises NoRouteToDatabase or ConnectionError
CanConnect(c, st, upf) ==
    IF c.obj.kind = "sqlite"
    THEN LET tgt == TargetOf(c.obj.db)
         IN  /\ tgt.store \notin Unreachable
             /\ \/ ~tgt.ro
                \/ tgt.store = ":memory:"
                \/ st[tgt.store].exists
    ELSE upf[c.id]

\* the store after a get_connection that succeeded: sqlite3.connect creates a
\* missing file unless the name says mode=ro
AfterConnect(c, st) ==
    LET s == TargetOf(c.obj.db).store
    IN  [st EXCEPT ![s] = [@ EXCEPT !.exists = TRUE, !.opened = TRUE]]

\* InitLoop without the break: every candidate is attempted and the last
\* one that connects stays in the slot
RECURSIVE InitLoopNoBreak(_, _, _, _, _, _)
InitLoopNoBreak(list, i, rw, st, upf, tried) ==
    LET Last(r) == [r EXCEPT !.win = IF r.win = 0 THEN i ELSE r.win]
    IN  IF i > Len(list)
        THEN [win |-> 0, stores |-> st, tried |-> tried]
        ELSE IF CanConnect(list[i], st, upf)
        THEN Last(InitLoopNoBreak(list, i + 1, rw, AfterConnect(list[i], st),
                     upf, Append(tried, [rw |-> rw, idx |-> i, ok |-> TRUE])))
        ELSE InitLoopNoBreak(list, i + 1, rw, st, upf,
                     Append(tried, [rw |-> rw, idx |-> i, ok |-> FALSE]))

\* the loop of _initialize_connections from candidate i on: win is the index
\* of the candidate stored in the slot (0: the loop ran to its else branch)
RECURSIVE InitLoop(_, _, _, _, _, _)
InitLoop(list, i, rw, st, upf, tried) ==
    IF i > Len(list)
    THEN [win |-> 0, stores |-> st, tried |-> tried]
    ELSE IF CanConnect(list[i], st, upf)
         THEN [win |-> i, stores |-> AfterConnect(list[i], st),
               tried |-> Append(tried, [rw |-> rw, idx |-> i, ok |-> TRUE])]
         ELSE InitLoop(list, i + 1, rw, st, upf,
                       Append(tried, [rw |-> rw, idx |-> i, ok |-> FALSE]))

\* _initialize_connections
initialize_connections(list, rw, st, upf, tried) ==
    InitLoop(list, 1, rw, st, upf, tried)

\* InitializeBoth giving up as soon as the read-only list is exhausted
InitializeBothEarly(ro, rw, st, upf) ==
    LET Both(a, b) == [ro |-> a.win, rw |-> b.win, stores |-> b.stores,
                       tried |-> b.tried]
        After(a) ==
            IF a.win = 0
            THEN [ro |-> 0, rw |-> 0, stores |-> a.stores, tried |-> a.tried]
            ELSE Both(a, initialize_connections(rw, TRUE, a.stores, upf,
                                                a.tried))
    IN  After(initialize_connections(ro, FALSE, st, upf, <<>>))

\* the two calls of _initialize_connections at the end of connect
InitializeBoth(ro, rw, st, upf) ==
    LET Both(a, b) == [ro |-> a.win, rw |-> b.win, stores |-> b.stores,
                       tried |-> b.tried]
        After(a) == Both(a, initialize_connections(rw, TRUE, a.stores, upf,
                                                   a.tried))
    IN  After(initialize_connections(ro, FALSE, st, upf, <<>>))

(***************************************************************************)
(* connectdb.connect                                                       *)
(***************************************************************************)
\* the connector ids some slot refers to
SlotRefs(sl) == ({sl[u].ro : u \in Threads} \cup {sl[u].rw : u \in Threads})
                    \ {None}

\* AlreadyConnected with the reconnect flag read the wrong way round
AlreadyConnectedFlipped(cur, reconnect) ==
    reconnect /\ (cur.ro # None \/ cur.rw # None)

\* the test at the top of connect: a connection already exists
AlreadyConnected(cur, reconnect) ==
    ~reconnect /\ (cur.ro # None \/ cur.rw # None)

\* the outcome of connect(reconnect) called by thread t in the current state
connect(t, reconnect) ==
    LET cur == slot[t]
        Out(resolved, exc, te, res, cs, sl, st, tried) ==
            [resolved |-> resolved, exc |-> exc, te |-> te,
             rcfiles |-> res.rcfiles, conns |-> cs, slot |-> sl,
             stores |-> st, tried |-> tried,
             consulted |-> res.consulted, context |-> res.context,
             nro |-> Len(res.ro), nrw |-> Len(res.rw)]
        \* get_connection on connector c of chimedb.config
        Att(c) == get_connection(conns[c], TRUE, ssh[c],
                                 Listening(conns, foreign, c), up[c])
        \* the slots and the heap once both lists have been tried: a new
        \* connector that won goes to the heap cell f1 (read-only) or f2
        Cached(te, res, both, f1, f2) ==
            LET Ids == {(IF both.tried[k].rw THEN res.rw ELSE res.ro)
                            [both.tried[k].idx].id :
                        k \in 1..Len(both.tried)} \ {0}
                idro == IF both.ro = 0 THEN cur.ro
                        ELSE IF res.ro[both.ro].id # 0 THEN res.ro[both.ro].id
                        ELSE f1
                idrw == IF both.rw = 0 THEN cur.rw
                        ELSE IF res.rw[both.rw].id # 0 THEN res.rw[both.rw].id
                        ELSE f2
                newro == both.ro # 0 /\ idro = f1
                newrw == both.rw # 0 /\ idrw = f2
            IN  Out(TRUE,
                    IF idro = None \/ idrw = None
                    THEN "ConnectionError" ELSE "none",
                    te, res,
                    [i \in ConnIds |->
                        IF newro /\ i = f1 THEN res.ro[both.ro].obj
                        ELSE IF newrw /\ i = f2 THEN res.rw[both.rw].obj
                        ELSE IF i \in Ids THEN Att(i).obj
                        ELSE conns[i]],
                    [ro |-> idro, rw |-> idrw], both.stores, both.tried)
        Fresh(te, res, both, used) ==
            Cached(te, res, both, Min(ConnIds \ used),
                   Min(ConnIds \ (used \cup {Min(ConnIds \ used)})))
        Resolved(te, res) ==
            IF res.exc # "none"
            THEN Out(TRUE, res.exc, te, res, conns, cur, stores, <<>>)
            ELSE Fresh(te, res,
                       InitializeBoth(res.ro, res.rw, stores,
                                      [c \in ConfigIds |-> Att(c).ok]),
                       ConfigIds \cup SlotRefs(slot))
        Seen(res) == [res EXCEPT !.consulted = @ \cup {"CHIMEDB_TEST_ENABLE"}]
        Mode(te) ==
            Resolved(te, Seen(Resolve(te, environ, files, RC_FILES, configMod)))
    IN  IF ~connect_this_rank(ALL_RANKS, mpi_rank)
           \/ AlreadyConnected(cur, reconnect)
        THEN Out(FALSE, "none", TEST_ENABLE,
                 [rcfiles |-> RC_FILES, consulted |-> {}, context |-> "none",
                  ro |-> <<>>, rw |-> <<>>],
                 conns, cur, stores, <<>>)
        ELSE Mode(IF HaveEnvvar(environ, "CHIMEDB_TEST_ENABLE")
                  THEN test_enable(TEST_ENABLE) ELSE TEST_ENABLE)

(***************************************************************************)
(* peewee database objects                                                 *)
(***************************************************************************)
\* the state peewee keeps per thread for one database object: whether the
\* thread's connection is open, how many transactions are on its stack and
\* the value written but not yet committed (0: nothing pending)
Closed == [open |-> FALSE, depth |-> 0, pend |-> 0]

\* a free cell of the handle heap
NoHandle == [store |-> "", ro |-> FALSE, st |-> [u \in Threads |-> Closed]]

\* a database object that is writable whatever the name says
get_peewee_database_writable(c) ==
    [store |-> TargetOf(c.db).store, ro |-> FALSE,
     st |-> [u \in Threads |-> Closed]]

\* connector.get_peewee_database(): a new database object on every call
get_peewee_database(c) ==
    [store |-> TargetOf(c.db).store, ro |-> TargetOf(c.db).ro,
     st |-> [u \in Threads |-> Closed]]

\* Handles are numbered in the order in which the references to them are
\* met in RefSeq: the connectors' _database fields, then the frames of the
\* atomic scopes, then the proxy.  A handle nothing refers to is dropped (its
\* connection goes with it).  The numbering is redone after every step, so a
\* handle's number means nothing across steps.

\* scope stacks padded to a fixed length
Padded(sc) ==
    [u \in Threads |-> [k \in 1..MaxDepth |->
        IF k <= Len(sc[u]) THEN sc[u][k].h ELSE None]]

RECURSIVE Flatten(_, _)
Flatten(f, S) ==
    IF S = {} THEN <<>>
    ELSE LET u == Min(S) IN f[u] \o Flatten(f, S \ {u})

RefSeq(cs, px, sc) ==
    [i \in ConnIds |-> cs[i].database] \o Flatten(Padded(sc), Threads) \o <<px>>

\* the handles referred to in seq, each once, in the order of first mention
RECURSIVE Distinct(_, _, _)
Distinct(seq, i, acc) ==
    IF i > Len(seq) THEN acc
    ELSE Distinct(seq, i + 1,
                  IF seq[i] = None \/ seq[i] \in Range(acc)
                  THEN acc ELSE Append(acc, seq[i]))

\* the new number of handle h: its place in order (None when not in it)
Renumber(order, h) ==
    IF h \in Range(order)
    THEN CHOOSE k \in 1..Len(order) : order[k] = h
    ELSE None

\* the heaps after a step: drop what nothing refers to, renumber the handles
Heap(cs0, sl, hs, px, sc) ==
    LET Kept(keep) ==
            [i \in ConnIds |-> IF i \in keep THEN cs0[i] ELSE NoConn]
        Numbered(cs, order) ==
            [conns |-> [i \in ConnIds |->
                          IF cs[i].database = None THEN cs[i]
                          ELSE [cs[i] EXCEPT
                                  !.database = Renumber(order, cs[i].database)]],
             handles |-> [k \in HandleIds |->
                            IF k <= Len(order) THEN hs[order[k]] ELSE NoHandle],
             proxy |-> Renumber(order, px),
             scopes |-> [u \in Threads |-> [k \in 1..Len(sc[u]) |->
                            [sc[u][k] EXCEPT
                                !.h = Renumber(order, sc[u][k].h)]]]]
        Ordered(cs) == Numbered(cs, Distinct(RefSeq(cs, px, sc), 1, <<>>))
    IN  Ordered(Kept(ConfigIds \cup SlotRefs(sl)))

\* the step stores the heaps
Store(cs, sl, hs, px, sc) ==
    LET Put(n) ==
            /\ slot' = sl
            /\ conns' = n.conns
            /\ handles' = n.handles
            /\ proxy' = n.proxy
            /\ scopes' = n.scopes
    IN  Put(Heap(cs, sl, hs, px, sc))

FreeHandles == {h \in HandleIds : handles[h] = NoHandle}

\* A shared-cache in-memory database lives as long as some connection to it
\* is open: when the last one is closed, or dropped with its database object,
\* the database and what was written to it are gone.
MemGone(hs) ==
    \A h \in HandleIds, u \in Threads :
        hs[h].store = ":memory:" => ~hs[h].st[u].open

\* the stores once the handles are hs
Settle(st, hs) ==
    IF MemGone(hs) THEN [st EXCEPT ![":memory:"].val = 0] ELSE st

(***************************************************************************)
(* connectdb.close                                                         *)
(***************************************************************************)
\* peewee Database.close() by thread t: refuses while t has a transaction open
DatabaseClose(hs, h, t) ==
    IF hs[h].st[t].depth > 0
    THEN [exc |-> "OperationalError", handles |-> hs]
    ELSE [exc |-> "none", handles |-> [hs EXCEPT ![h].st[t] = Closed]]

\* a close that leaves the forwarder running
TunnelCloseKept(obj) == obj

\* the second half of MySQLConnector.close: a forwarder that is active is
\* stopped and let go of
TunnelClose(obj) ==
    IF obj.tunnel = "active" THEN [obj EXCEPT !.tunnel = "none"] ELSE obj

\* SqliteConnector.close / MySQLConnector.close on connector c, by thread t
ConnectorClose(cs, hs, c, t) ==
    LET h == cs[c].database
        Tunnel(r) ==
            IF r.exc = "none" /\ cs[c].kind = "mysql"
            THEN [r EXCEPT !.conns[c] = TunnelClose(@)]
            ELSE r
        Done(d) ==
            IF d.exc # "none"
            THEN [exc |-> d.exc, conns |-> cs, handles |-> hs]
            ELSE [exc |-> "none",
                  conns |-> [cs EXCEPT ![c].database = None],
                  handles |-> d.handles]
    IN  IF h = None \/ (cs[c].kind = "mysql" /\ ~hs[h].st[t].open)
        THEN Tunnel([exc |-> "none", conns |-> cs, handles |-> hs])
        ELSE Tunnel(Done(DatabaseClose(hs, h, t)))

\* connectdb.close() called by thread t
close(t) ==
    LET cur == slot[t]
        One(cs, hs, c) ==
            IF c # None THEN ConnectorClose(cs, hs, c, t)
            ELSE [exc |-> "none", conns |-> cs, handles |-> hs]
        Second(b) ==
            [exc |-> b.exc, conns |-> b.conns, handles |-> b.handles,
             slot |-> [ro |-> None,
                       rw |-> IF b.exc = "none" THEN None ELSE cur.rw]]
        First(a) ==
            IF a.exc # "none"
            THEN [exc |-> a.exc, conns |-> a.conns, handles |-> a.handles,
                  slot |-> cur]
            ELSE Second(One(a.conns, a.handles, cur.rw))
    IN  First(One(conns, handles, cur.ro))

(***************************************************************************)
(* orm.connect_database                                                    *)
(***************************************************************************)
\* connect_database(read_write, reconnect) by thread t
connect_database(t, read_write, reconnect) ==
    LET Out(r, exc, cs, hs, px) ==
            [resolved |-> r.resolved, exc |-> exc, te |-> r.te,
             rcfiles |-> r.rcfiles, conns |-> cs, slot |-> r.slot,
             stores |-> r.stores, tried |-> r.tried,
             consulted |-> r.consulted, context |-> r.context,
             nro |-> r.nro, nrw |-> r.nrw, handles |-> hs, proxy |-> px]
        \* connector.get_peewee_database() and database_proxy.initialize:
        \* e is what MySQLConnector.ensure_route_to_database made of it
        Made(r, c, h, e) ==
            IF e.exc # "none"
            THEN Out(r, e.exc, [r.conns EXCEPT ![c] = e.obj], handles, proxy)
            ELSE Out(r, "none",
                     [r.conns EXCEPT ![c] = [e.obj EXCEPT !.database = h]],
                     [handles EXCEPT ![h] = get_peewee_database(r.conns[c])],
                     h)
        Init(r, c, h) ==
            IF r.exc # "none"
            THEN Out(r, r.exc, r.conns, handles, proxy)
            ELSE IF ~connect_this_rank(ALL_RANKS, mpi_rank)
            THEN Out(r, "none", r.conns, handles, proxy)
            ELSE IF c = None
            THEN Out(r, "ConnectionError", r.conns, handles, proxy)
            ELSE Made(r, c, h,
                      IF c \in ConfigIds
                      THEN ensure_route_to_database(r.conns[c], TRUE, ssh[c],
                               Listening(r.conns, foreign, c))
                      ELSE [exc |-> "none", obj |-> r.conns[c],
                            session |-> "none"])
        Connected(r) ==
            Init(r, IF read_write THEN r.slot.rw ELSE r.slot.ro,
                 Min(FreeHandles))
    IN  Connected(connect(t, reconnect))

(***************************************************************************)
(* orm.name_table                                                          *)
(***************************************************************************)
\* the __name__ of the models derived from name_table
ClassNames == {"band", "source"}

\* the columns get_query_cache is used with (from_id, from_name)
Fields == {"id", "name"}

\* the ids of the rows a table may hold, the values looked up
Ids == 1..MaxId

\* the name of the row with id i, as a number: names are unique per table
\* and differ from the ids
NameOf(i) == MaxId + 1 - i

\* the local variables of a thread that is in no name_table method: the
\* class, the column and the value, the row fetched, the rows selected and
\* not yet stored, the row being stored, and the queries issued so far
NoLocals == [T |-> "", field |-> "", val |-> None, row |-> None,
             rows |-> {}, cur |-> None, q |-> 0]

\* _query_cache[cls.__name__] before anything is cached: a dict per column
\* from value to row (None: no entry) and the "__fill_cache__" mark
NoClassCache ==
    [id |-> [v \in Ids |-> None], name |-> [v \in Ids |-> None],
     filled |-> FALSE]

\* cls.get(**{field: val}) on a table with rows tab: the row, by its id, or
\* None when peewee raises cls.DoesNotExist
Get(tab, field, val) ==
    LET i == IF field = "id" THEN val ELSE NameOf(val)
    IN  IF tab[i] THEN i ELSE None

\* a clear_cache that empties the cache of every class
clear_cache_all(cache, T) == [U \in ClassNames |-> NoClassCache]

\* name_table.clear_cache
clear_cache(cache, T) == [cache EXCEPT ![T] = NoClassCache]

\* a store that starts the column's dict afresh
column_cache_put_fresh(cache, T, field, val, row) ==
    [cache EXCEPT ![T][field] = [v \in Ids |-> IF v = val THEN row ELSE None]]

\* column_cache[val] = row
column_cache_put(cache, T, field, val, row) ==
    [cache EXCEPT ![T][field][val] = row]

\* get_query_cache that returns the row without keeping it
get_query_cache_nostore(cache, T, field, val, tab) ==
    IF val = None
    THEN [exc |-> "none", row |-> None, queries |-> 0, cache |-> cache]
    ELSE IF Get(tab, field, val) = None
    THEN [exc |-> "DoesNotExist", row |-> None, queries |-> 1, cache |-> cache]
    ELSE [exc |-> "none", row |-> Get(tab, field, val), queries |-> 1,
          cache |-> cache]

\* get_query_cache that answers a value it has once missed from then on
\* with the first row, without a query
get_query_cache_negative(cache, T, field, val, tab) ==
    IF val = None
    THEN [exc |-> "none", row |-> None, queries |-> 0, cache |-> cache]
    ELSE IF cache[T][field][val] # None
    THEN [exc |-> "none", row |-> cache[T][field][val], queries |-> 0,
          cache |-> cache]
    ELSE [exc |-> IF Get(tab, field, val) = None
                  THEN "DoesNotExist" ELSE "none",
          row |-> Get(tab, field, val), queries |-> 1,
          cache |-> [cache EXCEPT ![T][field][val] =
                        IF Get(tab, field, val) = None
                        THEN 1 ELSE Get(tab, field, val)]]

\* name_table.get_query_cache(field, val) of the class named T, the table
\* holding the rows tab: the exception, the row returned, the number of
\* queries issued and the cache afterwards
get_query_cache(cache, T, field, val, tab) ==
    IF val = None
    THEN [exc |-> "none", row |-> None, queries |-> 0, cache |-> cache]
    ELSE IF cache[T][field][val] # None
    THEN [exc |-> "none", row |-> cache[T][field][val], queries |-> 0,
          cache |-> cache]
    ELSE IF Get(tab, field, val) = None
    THEN [exc |-> "DoesNotExist", row |-> None, queries |-> 1, cache |-> cache]
    ELSE [exc |-> "none", row |-> Get(tab, field, val), queries |-> 1,
          cache |-> [cache EXCEPT ![T][field][val] = Get(tab, field, val)]]

\* a fill_cache that caches the rows under their ids only
fill_cache_idonly(cache, T, tab) ==
    IF cache[T].filled
    THEN [queries |-> 0, cache |-> cache]
    ELSE [queries |-> 1,
          cache |-> [cache EXCEPT ![T] =
              [id |-> [v \in Ids |-> IF tab[v] THEN v ELSE @.id[v]],
               name |-> @.name,
               filled |-> TRUE]]]

\* name_table.fill_cache of the class named T
fill_cache(cache, T, tab) ==
    IF cache[T].filled
    THEN [queries |-> 0, cache |-> cache]
    ELSE [queries |-> 1,
          cache |-> [cache EXCEPT ![T] =
              [id |-> [v \in Ids |-> IF tab[v] THEN v ELSE @.id[v]],
               name |-> [v \in Ids |->
                           IF tab[NameOf(v)] THEN NameOf(v) ELSE @.name[v]],
               filled |-> TRUE]]]

(***************************************************************************)
(* The record of the most recent call                                      *)
(***************************************************************************)
NoCall == [op |-> "none", t |-> 0, rw |-> FALSE, reconnect |-> FALSE,
           resolved |-> FALSE, exc |-> "none", context |-> "none",
           consulted |-> {}, tried |-> <<>>, nro |-> 0, nrw |-> 0,
           empty |-> FALSE, kind |-> "none", val |-> 0, code |-> "none",
           store |-> "", v0 |-> 0, plain |-> FALSE, pend |-> 0,
           left |-> 0, depth |-> 0, out |-> <<"none", 0, "none">>]

\* the record of a connect or connect_database call with outcome r
CallOf(op, t, rw, reconnect, r) ==
    [NoCall EXCEPT !.op = op, !.t = t, !.rw = rw, !.reconnect = reconnect,
                   !.resolved = r.resolved, !.exc = r.exc,
                   !.context = r.context, !.consulted = r.consulted,
                   !.tried = r.tried, !.nro = r.nro, !.nrw = r.nrw,
                   !.empty = (slot[t] = [ro |-> None, rw |-> None])]

\* The frame of an atomic scope is [h, sp, v0, plain]: the handle it was
\* entered on, the pending value at entry, the value its store held at entry,
\* and whether the body has so far done nothing but queries through the
\* proxy.  A call of connect, close, commit, rollback or another atomic
\* function by thread t ends that for every scope open in t.
Touched(sc, t) ==
    [sc EXCEPT ![t] = [k \in 1..Len(@) |-> [@[k] EXCEPT !.plain = FALSE]]]

(***************************************************************************)
(* Thread-local storage                                                    *)
(***************************************************************************)
\* the two attributes kept in a plain module global, one for all threads
threadlocal_set_global(sl, t, v) == [u \in Threads |-> v]

\* _threadlocal = threading.local(): assigning the two attributes in thread t
threadlocal_set(sl, t, v) == [sl EXCEPT ![t] = v]

\* current_connector reading the slots of thread 1 whoever asks
current_connector_first(sl, t, read_write) ==
    IF read_write THEN sl[1].rw ELSE sl[1].ro

\* current_connector(read_write) called by thread t: None is the default of
\* getattr on an attribute the thread never assigned
current_connector(sl, t, read_write) ==
    IF read_write THEN sl[t].rw ELSE sl[t].ro

(***************************************************************************)
(* Operations of the connection broker                                     *)
(***************************************************************************)
\* test_enable() called by any thread
TestEnable ==
    /\ TEST_ENABLE' = test_enable(TEST_ENABLE)
    /\ last' = [NoCall EXCEPT !.op = "test_enable"]
    /\ UNCHANGED <<environ, files, RC_FILES, configMod, up, world, orm,
                   conns, handles, slot, proxy, stores, scopes, pc>>

\* connectdb.connect(reconnect) called by thread t
Connect(t, reconnect) ==
    LET Do(r) ==
            /\ Len(r.rcfiles) <= MaxRcFiles
            /\ TEST_ENABLE' = r.te
            /\ RC_FILES' = r.rcfiles
            /\ Store(r.conns, threadlocal_set(slot, t, r.slot), handles, proxy,
                     scopes)
            /\ stores' = Settle(r.stores, handles')
            /\ last' = CallOf("connect", t, FALSE, reconnect, r)
    IN  /\ pc[t] = "idle"
        /\ Do(connect(t, reconnect))
        /\ UNCHANGED <<environ, files, configMod, up, world, orm, pc>>

\* chimedb.core.connect(read_write, reconnect), i.e. orm.connect_database,
\* called by thread t
ConnectDatabase(t, read_write, reconnect) ==
    LET Do(r) ==
            /\ Len(r.rcfiles) <= MaxRcFiles
            /\ TEST_ENABLE' = r.te
            /\ RC_FILES' = r.rcfiles
            /\ Store(r.conns, threadlocal_set(slot, t, r.slot), r.handles, r.proxy,
                     Touched(scopes, t))
            /\ stores' = Settle(r.stores, handles')
            /\ last' = CallOf("connect_database", t, read_write, reconnect, r)
    IN  /\ pc[t] = "idle"
        /\ FreeHandles # {}
        /\ Do(connect_database(t, read_write, reconnect))
        /\ UNCHANGED <<environ, files, configMod, up, world, orm, pc>>

\* connectdb.close() called by thread t
Close(t) ==
    LET Do(r) ==
            /\ Store(r.conns, threadlocal_set(slot, t, r.slot), r.handles, proxy,
                     Touched(scopes, t))
            /\ stores' = Settle(stores, handles')
            /\ last' = [NoCall EXCEPT !.op = "close", !.t = t, !.exc = r.exc]
    IN  /\ pc[t] = "idle"
        /\ Do(close(t))
        /\ UNCHANGED <<TEST_ENABLE, environ, files, RC_FILES, configMod, up,
                       world, orm, pc>>

\* del os.environ[name], done by the program between two calls
Unsetenv(name) ==
    /\ HaveEnvvar(environ, name)
    /\ environ' = [environ EXCEPT ![name] = ""]
    /\ last' = [NoCall EXCEPT !.op = "unsetenv"]
    /\ UNCHANGED <<TEST_ENABLE, files, RC_FILES, configMod, up, world, orm,
                   conns, handles, slot, proxy, stores, scopes, pc>>

\* the network changes: a server of chimedb.config comes up or goes down
NetChange(c) ==
    /\ configMod
    /\ up' = [up EXCEPT ![c] = ~@]
    /\ last' = [NoCall EXCEPT !.op = "net"]
    /\ UNCHANGED <<TEST_ENABLE, environ, files, RC_FILES, configMod, world,
                   orm, conns, handles, slot, proxy, stores, scopes, pc>>

\* the ssh side changes: how a tunnel of connector c of chimedb.config
\* would fare from now on
SshChange(c, v) ==
    /\ configMod
    /\ v # ssh[c]
    /\ ssh' = [ssh EXCEPT ![c] = v]
    /\ last' = [NoCall EXCEPT !.op = "ssh"]
    /\ UNCHANGED <<TEST_ENABLE, environ, files, RC_FILES, configMod, up,
                   foreign, ALL_RANKS, mpi_rank, conns, handles, slot, proxy,
                   stores, scopes, pc, orm>>

\* the local port connector c bound last, free since its forwarder stopped,
\* is taken by some other listener, or given up by it again
PortChange(c) ==
    /\ conns[c].tunnel # "active"
    /\ conns[c].tunnel_port # None
    /\ foreign' = [foreign EXCEPT ![c] = ~@]
    /\ last' = [NoCall EXCEPT !.op = "port"]
    /\ UNCHANGED <<TEST_ENABLE, environ, files, RC_FILES, configMod, up, ssh,
                   ALL_RANKS, mpi_rank, conns, handles, slot, proxy, stores,
                   scopes, pc, orm>>

\* connector.ensure_route_to_database() called by thread t on connector c
\* of the lists of chimedb.config
EnsureRoute(t, c) ==
    LET Do(r) ==
            /\ conns' = [conns EXCEPT ![c] = r.obj]
            /\ last' = [NoCall EXCEPT !.op = "ensure_route", !.t = t,
                                      !.exc = r.exc, !.kind = r.session,
                                      !.left = c]
    IN  /\ pc[t] = "idle"
        /\ configMod /\ c \in ConfigIds
        /\ Do(ensure_route_to_database(conns[c],
                  connect_this_rank(ALL_RANKS, mpi_rank), ssh[c],
                  Listening(conns, foreign, c)))
        /\ UNCHANGED <<TEST_ENABLE, environ, files, RC_FILES, configMod, up,
                       world, orm, handles, slot, proxy, stores, scopes, pc>>

(***************************************************************************)
(* Initial states                                                          *)
(***************************************************************************)
NoEnv == [v \in EnvVars |-> ""]
NoFiles == [f \in Paths |-> "absent"]
NewStore == [exists |-> FALSE, val |-> 0, opened |-> FALSE]
\* tables without rows
NoRows == [s \in Stores |-> [T \in ClassNames |-> [i \in Ids |-> FALSE]]]

\* the state of the program after import, under environment env, file
\* system fls, with or without chimedb.config, and with the files in ex
\* existing; the connectors of chimedb.config in tunnelled with tunnel_host,
\* ALL_RANKS as set by the program, the process of MPI rank `rank` and the
\* tables of the databases holding rows
InitCluster(env, fls, cfg, ex, tunnelled, all_ranks, rank, rows) ==
    /\ TEST_ENABLE = FALSE
    /\ environ = env
    /\ files = fls
    /\ RC_FILES = DefaultRcFiles
    /\ configMod = cfg
    /\ up = [c \in ConfigIds |-> FALSE]
    /\ ssh = [c \in ConfigIds |-> "ok"]
    /\ foreign = [c \in ConfigIds |-> FALSE]
    /\ ALL_RANKS = all_ranks
    /\ mpi_rank = rank
    /\ conns = [i \in ConnIds |->
                  IF cfg /\ i \in ConfigIds
                  THEN ConfigVia(IF i \in tunnelled THEN "gateway" ELSE "None")
                  ELSE NoConn]
    /\ handles = [h \in HandleIds |-> NoHandle]
    /\ slot = [u \in Threads |-> [ro |-> None, rw |-> None]]
    /\ proxy = None
    /\ stores = [s \in Stores |->
                   [NewStore EXCEPT !.exists = (s \in ex \cup {"net"})]]
    /\ scopes = [u \in Threads |-> <<>>]
    /\ query_cache = [T \in ClassNames |-> NoClassCache]
    /\ tables = rows
    /\ locals = [u \in Threads |-> NoLocals]
    /\ pc = [u \in Threads |-> "idle"]
    /\ last = NoCall

\* the same in a process without mpi4py, chimedb.config (if there) providing
\* connectors without tunnels
InitWith(env, fls, cfg, ex) ==
    InitCluster(env, fls, cfg, ex, {}, FALSE, -1, NoRows)

\* the broker: the connector lists of chimedb.config, or the sqlite file
\* named by CHIMEDB_SQLITE, which may or may not exist yet
Init ==
    \/ InitWith(NoEnv, NoFiles, TRUE, {})
    \/ \E ex \in {{}, {"prod.db"}} :
          InitWith([NoEnv EXCEPT !["CHIMEDB_SQLITE"] = "prod.db"],
                   NoFiles, FALSE, ex)

Next ==
    \/ TestEnable
    \/ \E t \in Threads, reconnect \in BOOLEAN : Connect(t, reconnect)
    \/ \E t \in Threads : Close(t)
    \/ \E c \in ConfigIds : NetChange(c)

Spec == Init /\ [][Next]_vars

(***************************************************************************)
(* Queries and transactions on the proxy                                   *)
(***************************************************************************)
\* the thread's connection on a handle is opened by its first use; a sqlite
\* file opened read-write is created when missing
AfterOpen(st, hrec) ==
    [st EXCEPT ![hrec.store] =
        [@ EXCEPT !.exists = IF hrec.ro THEN @ ELSE TRUE, !.opened = TRUE]]

\* another connection holds uncommitted writes on the store of handle h
LockedByOther(hs, h, t) ==
    \E h2 \in HandleIds, u \in Threads :
        /\ <<h2, u>> # <<h, t>>
        /\ hs[h2].store = hs[h].store
        /\ hs[h2].st[u].pend # 0

\* an UPDATE issued by thread t through the proxy (Model.update().execute()):
\* it fails on a read-only handle and on a store another connection has
\* locked; outside a transaction it is committed at once
Write(t, v) ==
    /\ pc[t] = "idle"
    /\ proxy # None
    /\ LET h == proxy
           hrec == handles[h]
           fails == hrec.ro \/ LockedByOther(handles, h, t)
           intx == hrec.st[t].depth > 0
       IN  /\ handles' = [handles EXCEPT ![h].st[t] =
                            [@ EXCEPT !.open = TRUE,
                                      !.pend = IF ~fails /\ intx THEN v ELSE @]]
           /\ stores' = IF ~fails /\ ~intx
                        THEN [AfterOpen(stores, hrec) EXCEPT ![hrec.store].val = v]
                        ELSE AfterOpen(stores, hrec)
           /\ last' = [NoCall EXCEPT !.op = "write", !.t = t, !.val = v,
                          !.exc = IF fails THEN "OperationalError" ELSE "none"]
    /\ UNCHANGED <<TEST_ENABLE, environ, files, RC_FILES, configMod, up,
                   world, orm, conns, slot, proxy, scopes, pc>>

\* a SELECT issued by thread t through the proxy (Model.select().scalar()),
\* while no other connection holds uncommitted writes on the store: it opens
\* the thread's connection and returns the value pending on that connection,
\* or else the one the store holds
Read(t) ==
    /\ pc[t] = "idle"
    /\ proxy # None
    /\ ~LockedByOther(handles, proxy, t)
    /\ LET h == proxy
           hrec == handles[h]
       IN  /\ handles' = [handles EXCEPT ![h].st[t].open = TRUE]
           /\ stores' = AfterOpen(stores, hrec)
           /\ last' = [NoCall EXCEPT !.op = "read", !.t = t,
                          !.rw = ~hrec.ro, !.store = hrec.store,
                          !.val = IF hrec.st[t].pend # 0
                                  THEN hrec.st[t].pend
                                  ELSE stores[hrec.store].val]
    /\ UNCHANGED <<TEST_ENABLE, environ, files, RC_FILES, configMod, up,
                   world, orm, conns, slot, proxy, scopes, pc>>

\* a commit that writes nothing through
CommitOnDropped(st, store, cs) == st

\* peewee Database.commit() on the connection state cs of a store record
CommitOn(st, store, cs) ==
    IF cs.pend # 0 THEN [st EXCEPT ![store].val = cs.pend] ELSE st

\* proxy.commit() or proxy.rollback() called by thread t
ProxyEnd(t, commit) ==
    /\ pc[t] = "idle"
    /\ proxy # None
    /\ handles[proxy].st[t].open
    /\ LET h == proxy
           hrec == handles[h]
       IN  /\ stores' = IF commit THEN CommitOn(stores, hrec.store, hrec.st[t])
                        ELSE stores
           /\ handles' = [handles EXCEPT ![h].st[t].pend = 0]
           /\ scopes' = Touched(scopes, t)
           /\ last' = [NoCall EXCEPT !.op = IF commit THEN "commit"
                                            ELSE "rollback", !.t = t]
    /\ UNCHANGED <<TEST_ENABLE, environ, files, RC_FILES, configMod, up,
                   world, orm, conns, slot, proxy, pc>>

(***************************************************************************)
(* context.atomic                                                          *)
(***************************************************************************)
\* the exit codes a body gives to SystemExit; "None" is sys.exit()
ExitCodes == {"None", "0", "1", "2"}

\* `if e.code:`
Truthy(code) == code \notin {"None", "0"}

\* atomic_wrapper, first statement: connect(read_write=read_write)
AtomicCall(t, read_write) ==
    LET Do(r) ==
            /\ Len(r.rcfiles) <= MaxRcFiles
            /\ TEST_ENABLE' = r.te
            /\ RC_FILES' = r.rcfiles
            /\ Store(r.conns, threadlocal_set(slot, t, r.slot), r.handles, r.proxy,
                     Touched(scopes, t))
            /\ stores' = Settle(r.stores, handles')
            /\ pc' = IF r.exc = "none" THEN [pc EXCEPT ![t] = "enter"] ELSE pc
            /\ last' = CallOf("atomic_call", t, read_write, FALSE, r)
    IN  /\ pc[t] = "idle"
        /\ Len(scopes[t]) < MaxDepth
        /\ FreeHandles # {}
        /\ Do(connect_database(t, read_write, FALSE))
        /\ UNCHANGED <<environ, files, configMod, up, world, orm>>

\* atomic_wrapper: `with proxy.atomic() as transaction` is entered, on the
\* handle the proxy holds now.  peewee begins a transaction when the thread
\* has none on the handle and sets a savepoint otherwise
AtomicBegin(t) ==
    /\ pc[t] = "enter"
    /\ LET h == proxy
           hrec == handles[h]
       IN  /\ Store(conns, slot,
                    [handles EXCEPT ![h].st[t] =
                        [@ EXCEPT !.open = TRUE, !.depth = @ + 1]],
                    proxy,
                    [scopes EXCEPT ![t] =
                        Append(@, [h |-> h, sp |-> hrec.st[t].pend,
                                   v0 |-> stores[hrec.store].val,
                                   plain |-> TRUE])])
           /\ stores' = Settle(AfterOpen(stores, hrec), handles')
    /\ pc' = [pc EXCEPT ![t] = "idle"]
    /\ last' = [NoCall EXCEPT !.op = "atomic_begin", !.t = t]
    /\ UNCHANGED <<TEST_ENABLE, environ, files, RC_FILES, configMod, up,
                   world, orm>>

\* transaction.rollback() on the helper of frame f: a transaction rolls back
\* and begins anew, a savepoint rolls back to where it was set
HelperRollback(cs, f) ==
    [cs EXCEPT !.pend = IF cs.depth = 1 THEN 0 ELSE f.sp]

\* a helper that commits whether or not an exception passes through
HelperExitCommits(st, store, cs, f, exc) ==
    IF cs.depth = 1
    THEN [stores |-> CommitOn(st, store, cs),
          cs |-> [cs EXCEPT !.pend = 0, !.depth = 0]]
    ELSE [stores |-> st, cs |-> [cs EXCEPT !.depth = @ - 1]]

\* the __exit__ of the transaction helper: at depth 1 roll back when an
\* exception passes through and commit otherwise; then pop
HelperExit(st, store, cs, f, exc) ==
    IF cs.depth = 1
    THEN [stores |-> IF exc THEN st ELSE CommitOn(st, store, cs),
          cs |-> [cs EXCEPT !.pend = 0, !.depth = 0]]
    ELSE [stores |-> st,
          cs |-> [cs EXCEPT !.pend = IF exc THEN f.sp ELSE @,
                            !.depth = @ - 1]]

\* a wrapper that saves the SystemExit without looking at its code
atomic_exit_saved(st, store, cs, f, kind, val, code) ==
    LET r == HelperExit(st, store, cs, f, kind = "raise")
    IN  [stores |-> r.stores, cs |-> r.cs,
         out |-> IF kind = "raise" THEN <<"raise", val, "none">>
                 ELSE IF kind = "exit" THEN <<"exit", 0, code>>
                 ELSE <<"return", val, "none">>]

\* what atomic_wrapper does once the body has ended with (kind, val, code):
\* "return" with value val, "raise" of the error val, "exit" by
\* SystemExit(code)
atomic_exit(st, store, cs, f, kind, val, code) ==
    LET saved_exit == IF kind = "exit" THEN code ELSE "none"
        Left(r) ==
            [stores |-> r.stores, cs |-> r.cs,
             out |-> IF kind = "raise" THEN <<"raise", val, "none">>
                     ELSE IF saved_exit # "none" THEN <<"exit", 0, saved_exit>>
                     ELSE <<"return", val, "none">>]
    IN  Left(HelperExit(st, store,
                        IF kind = "exit" /\ Truthy(code)
                        THEN HelperRollback(cs, f) ELSE cs,
                        f, kind = "raise"))

\* the body of the innermost atomic_wrapper of thread t ends
AtomicExit(t, kind, val, code) ==
    LET f == scopes[t][Len(scopes[t])]
        hrec == handles[f.h]
        Do(r) ==
            /\ Store(conns, slot, [handles EXCEPT ![f.h].st[t] = r.cs], proxy,
                     [scopes EXCEPT ![t] = SubSeq(@, 1, Len(@) - 1)])
            /\ stores' = Settle(r.stores, handles')
            /\ last' = [NoCall EXCEPT !.op = "atomic_exit", !.t = t,
                           !.kind = kind, !.val = val, !.code = code,
                           !.store = hrec.store, !.v0 = f.v0,
                           !.plain = f.plain, !.pend = hrec.st[t].pend,
                           !.left = r.cs.pend, !.depth = r.cs.depth,
                           !.out = r.out]
    IN  /\ pc[t] = "idle"
        /\ Len(scopes[t]) > 0
        /\ (kind = "exit") = (code # "none")
        /\ kind = "exit" => val = 0
        /\ Do(atomic_exit(stores, hrec.store, hrec.st[t], f, kind, val, code))
        /\ UNCHANGED <<TEST_ENABLE, environ, files, RC_FILES, configMod, up,
                       world, orm, pc>>

(***************************************************************************)
(* The ORM layer: connect_database, queries and atomic, in test mode       *)
(***************************************************************************)
\* as in test_decorator.py: CHIMEDB_TEST_ENABLE set and CHIMEDB_TEST_SQLITE
\* naming an existing file, by path or by URI; or no test source at all
InitAtomic ==
    \/ \E db \in {"test.db", "file:test.db"} :
          InitWith([NoEnv EXCEPT !["CHIMEDB_TEST_ENABLE"] = "1",
                                 !["CHIMEDB_TEST_SQLITE"] = db],
                   NoFiles, FALSE, {"test.db"})
    \/ InitWith([NoEnv EXCEPT !["CHIMEDB_TEST_ENABLE"] = "1"],
                NoFiles, FALSE, {})

\* the threads that use the ORM layer
AtomicThreads == {1}

NextAtomic ==
    \/ \E t \in AtomicThreads, rw \in BOOLEAN, reconnect \in BOOLEAN :
          ConnectDatabase(t, rw, reconnect)
    \/ \E t \in AtomicThreads : Close(t)
    \/ \E t \in AtomicThreads, v \in 1..MaxVal : Write(t, v)
    \/ \E t \in AtomicThreads, commit \in BOOLEAN : ProxyEnd(t, commit)
    \/ \E t \in AtomicThreads, rw \in BOOLEAN : AtomicCall(t, rw)
    \/ \E t \in AtomicThreads : AtomicBegin(t)
    \/ \E t \in AtomicThreads, v \in 0..MaxVal : AtomicExit(t, "return", v, "none")
    \/ \E t \in AtomicThreads, v \in 1..MaxVal : AtomicExit(t, "raise", v, "none")
    \/ \E t \in AtomicThreads, code \in ExitCodes : AtomicExit(t, "exit", 0, code)

SpecAtomic == InitAtomic /\ [][NextAtomic]_vars

(***************************************************************************)
(* The broker under every configuration                                    *)
(***************************************************************************)
\* the program after import under any setting of the five environment
\* variables, with or without chimedb.config, and with any contents of the
\* RC files; the sqlite files exist
InitEnv ==
    \E sq \in {"", "prod.db"}, rc \in {"", "/w/prod.yaml"}, te \in {"", "1"},
       tsq \in {"", "test.db"},
       trc \in {"", "/w/test.yaml", "/w/my_chimedbrc"},
       cfg \in BOOLEAN,
       home \in {"absent", "sqlite"}, prod \in {"absent", "sqlite"},
       test \in {"absent", "nosection", "sqlite", "badtype"} :
        InitWith([v \in EnvVars |->
                    CASE v = "CHIMEDB_SQLITE" -> sq
                      [] v = "CHIMEDBRC" -> rc
                      [] v = "CHIMEDB_TEST_ENABLE" -> te
                      [] v = "CHIMEDB_TEST_SQLITE" -> tsq
                      [] v = "CHIMEDB_TEST_RC" -> trc],
                 [f \in Paths |->
                    CASE f = "~/.chimedbrc" -> home
                      [] f = "/w/prod.yaml" -> prod
                      [] f = "/w/test.yaml" -> test
                      [] f = "/w/my_chimedbrc" -> "sqlite"
                      [] OTHER -> "absent"],
                 cfg, {"prod.db", "test.db", "rc.db"})

\* the thread that connects
EnvThreads == {1}

NextEnv ==
    \/ TestEnable
    \/ \E t \in EnvThreads, reconnect \in BOOLEAN : Connect(t, reconnect)
    \/ \E t \in EnvThreads : Close(t)
    \/ \E c \in ConfigIds : NetChange(c)

SpecEnv == InitEnv /\ [][NextEnv]_vars

(***************************************************************************)
(* The broker outside test mode, under every production configuration      *)
(***************************************************************************)
\* the program after import with the test variables unset, under any
\* setting of CHIMEDB_SQLITE and CHIMEDBRC, any contents of the RC files,
\* with or without chimedb.config; prod.db and rc.db exist
InitRc ==
    \E sq \in {"", "prod.db", "/nodir/x.db"}, rc \in {"", "/w/prod.yaml"},
       cfg \in BOOLEAN,
       prod \in {"absent", "empty", "sqlite", "badtype"},
       cur \in {"absent", "empty", "nosection", "sqlite", "badtype"},
       home \in {"absent", "nosection", "nofields", "sqlite"},
       etc \in {"absent", "sqlite"} :
        InitWith([NoEnv EXCEPT !["CHIMEDB_SQLITE"] = sq, !["CHIMEDBRC"] = rc],
                 [f \in Paths |->
                    CASE f = "/w/prod.yaml" -> prod
                      [] f = "./.chimedbrc" -> cur
                      [] f = "~/.chimedbrc" -> home
                      [] f = "/etc/chime/chimedbrc" -> etc
                      [] OTHER -> "absent"],
                 cfg, {"prod.db", "rc.db"})

NextRc ==
    \/ \E t \in EnvThreads, reconnect \in BOOLEAN : Connect(t, reconnect)
    \/ \E t \in EnvThreads : Close(t)
    \/ \E c \in ConfigIds : NetChange(c)

SpecRc == InitRc /\ [][NextRc]_vars

(***************************************************************************)
(* Test mode switched on while several threads connect                     *)
(***************************************************************************)
\* the program after import with CHIMEDB_TEST_ENABLE set or not, and with
\* CHIMEDB_SQLITE and CHIMEDB_TEST_SQLITE naming existing files or unset
InitSwitch ==
    \E te \in {"", "1"}, sq \in {"", "prod.db"}, tsq \in {"", "test.db"} :
        InitWith([NoEnv EXCEPT !["CHIMEDB_TEST_ENABLE"] = te,
                               !["CHIMEDB_SQLITE"] = sq,
                               !["CHIMEDB_TEST_SQLITE"] = tsq],
                 NoFiles, FALSE, {"prod.db", "test.db"})

NextSwitch ==
    \/ TestEnable
    \/ Unsetenv("CHIMEDB_TEST_ENABLE")
    \/ \E t \in Threads, reconnect \in BOOLEAN : Connect(t, reconnect)
    \/ \E t \in Threads : Close(t)

SpecSwitch == InitSwitch /\ [][NextSwitch]_vars

(***************************************************************************)
(* Queries over both roles, by every thread                                *)
(***************************************************************************)
\* the program after import: in test mode with no test source; or with
\* CHIMEDB_SQLITE naming an existing file by path or by URI; or with a file
\* of type sqlite in the current directory
InitOrm ==
    \/ InitWith([NoEnv EXCEPT !["CHIMEDB_TEST_ENABLE"] = "1"],
                NoFiles, FALSE, {})
    \/ \E db \in {"prod.db", "file:prod.db"} :
          InitWith([NoEnv EXCEPT !["CHIMEDB_SQLITE"] = db],
                   NoFiles, FALSE, {"prod.db"})
    \/ InitWith(NoEnv, [NoFiles EXCEPT !["./.chimedbrc"] = "sqlite"],
                FALSE, {"rc.db"})

NextOrm ==
    \/ \E t \in Threads, rw \in BOOLEAN, reconnect \in BOOLEAN :
          ConnectDatabase(t, rw, reconnect)
    \/ \E t \in Threads : Close(t)
    \/ \E t \in Threads, v \in 1..MaxVal : Write(t, v)
    \/ \E t \in Threads : Read(t)

SpecOrm == InitOrm /\ [][NextOrm]_vars

(***************************************************************************)
(* Properties of the connection broker (checked under Spec)                *)
(***************************************************************************)
\* the attempts of call record l on the candidates of one role, in order
TriedOf(l, rw) == SelectSeq(l.tried, LAMBDA e : e.rw = rw)

\* the record l is that of a call that went through connectdb.connect
IsConnect(l) == l.op \in {"connect", "connect_database", "atomic_call"}

\* the connector lists of chimedb.config and the slot of thread t, per role
ConfigList(rw) == IF rw THEN ConfigRW ELSE ConfigRO
SlotOf(sl, t, rw) == IF rw THEN sl[t].rw ELSE sl[t].ro
ListLen(l, rw) == IF rw THEN l.nrw ELSE l.nro

SlotsHoldConnectors ==
    \A t \in Threads : \A rw \in BOOLEAN :
        LET id == SlotOf(slot, t, rw)
        IN  id = None \/ (id \in ConnIds /\ conns[id] # NoConn)

\* C1: each slot of each thread holds nothing or one connector, and a
\* connect(reconnect=False) made while both slots of the thread are populated
\* leaves both slots holding the same connector objects, resolves no
\* configuration and attempts no connection.
C1_IdempotentConnect ==
    /\ []SlotsHoldConnectors
    /\ [][(/\ IsConnect(last')
           /\ ~last'.reconnect
           /\ slot[last'.t].ro # None
           /\ slot[last'.t].rw # None)
          => (/\ slot'[last'.t] = slot[last'.t]
              /\ ~last'.resolved
              /\ last'.consulted = {}
              /\ last'.tried = <<>>
              /\ last'.exc = "none")]_vars

C1_Witness ==
    /\ last.op = "connect"
    /\ ~last.reconnect
    /\ ~last.resolved
    /\ slot[last.t].ro # None
    /\ slot[last.t].rw # None

\* C7: for each role connect attempts the candidates in list order, stops at
\* the first one whose attempt succeeds and caches that one; the failures of
\* the candidates before it are not raised.
C7_FirstSuccessWins ==
    (IsConnect(last) /\ last.resolved /\ last.context # "none") =>
        /\ \A rw \in BOOLEAN :
              LET tr == TriedOf(last, rw)
                  n == ListLen(last, rw)
                  s == SlotOf(slot, last.t, rw)
                  cfg == last.context = "chimedb.config"
              IN  /\ Len(tr) <= n
                  /\ \A i \in 1..Len(tr) :
                        /\ tr[i].idx = i
                        /\ tr[i].ok => i = Len(tr)
                        /\ cfg => (tr[i].ok <=> up[ConfigList(rw)[i]])
                  /\ Len(tr) < n => (Len(tr) > 0 /\ tr[Len(tr)].ok)
                  /\ (Len(tr) > 0 /\ tr[Len(tr)].ok) =>
                        /\ s # None
                        /\ cfg => s = ConfigList(rw)[Len(tr)]
                        /\ ~cfg => (s \notin ConfigIds
                                    /\ conns[s].kind = "sqlite")
        /\ (\A rw \in BOOLEAN : \E i \in 1..Len(last.tried) :
                last.tried[i].rw = rw /\ last.tried[i].ok)
              => last.exc = "none"

C7_Witness ==
    /\ last.op = "connect"
    /\ last.context = "chimedb.config"
    /\ last.exc = "none"
    /\ TriedOf(last, FALSE) = <<[rw |-> FALSE, idx |-> 1, ok |-> FALSE],
                                [rw |-> FALSE, idx |-> 2, ok |-> TRUE]>>
    /\ slot[last.t].ro = ConfigRO[2]

\* every attempt of call record l on the candidates of the role failed
AllFailed(l, rw) == \A i \in 1..Len(l.tried) :
                        l.tried[i].rw = rw => ~l.tried[i].ok

\* C8: a connect that resolves from empty slots and finds every candidate of
\* some role failing raises ConnectionError after both lists were iterated;
\* the exhausted role's slot is empty afterwards, the other role's slot holds
\* its first working candidate.
C8_ExhaustedRole ==
    [][(/\ IsConnect(last')
        /\ last'.resolved
        /\ last'.context # "none"
        /\ slot[last'.t] = [ro |-> None, rw |-> None]
        /\ \E rw \in BOOLEAN : AllFailed(last', rw))
       => (/\ last'.exc = "ConnectionError"
           /\ \A rw \in BOOLEAN :
                LET tr == TriedOf(last', rw)
                    s == SlotOf(slot', last'.t, rw)
                IN  /\ Len(tr) >= 1
                    /\ AllFailed(last', rw) =>
                          (Len(tr) = ListLen(last', rw) /\ s = None)
                    /\ ~AllFailed(last', rw) =>
                          /\ s # None
                          /\ last'.context = "chimedb.config" =>
                                /\ s = ConfigList(rw)[Len(tr)]
                                /\ up[s]
                                /\ \A j \in 1..Len(tr) - 1 :
                                      ~up[ConfigList(rw)[j]])]_vars

C8_Witness ==
    /\ last.op = "connect"
    /\ last.resolved
    /\ last.empty
    /\ last.context = "chimedb.config"
    /\ last.exc = "ConnectionError"
    /\ Len(TriedOf(last, FALSE)) = Len(ConfigRO)
    /\ AllFailed(last, FALSE)
    /\ slot[last.t].ro = None
    /\ slot[last.t].rw = ConfigRW[2]

\* C9: connect(reconnect=False) returns without resolving exactly when both
\* slots of the calling thread are populated; with one slot populated it
\* resolves and attempts connections.
C9_ReturnsIffBothPopulated ==
    [][(IsConnect(last') /\ ~last'.reconnect)
       => (~last'.resolved <=>
             (slot[last'.t].ro # None /\ slot[last'.t].rw # None))]_vars

(***************************************************************************)
(* Properties of atomic (checked under SpecAtomic)                         *)
(***************************************************************************)
\* the innermost scope of thread t
TopFrame(t) == scopes[t][Len(scopes[t])]

\* the step is the end of a body with outcome kind
IsExit(l, kind) == l.op = "atomic_exit" /\ l.kind = kind

\* every store but s is left as it was
OthersKept(s) == \A s2 \in Stores \ {s} : stores'[s2] = stores[s2]

\* the store s is an in-memory database that has no connection left after
\* the step, so that it is gone with everything stored in it
Lost(s) == s = ":memory:" /\ MemGone(handles')

\* after the step the stores are st, but for an in-memory database that is gone
StoredAs(st) == stores' = Settle(st, handles')

\* after the step the store s holds v, unless it is gone
ValIs(s, v) == stores'[s].val = v \/ Lost(s)

\* C2: when the body of an atomic function ends by raising an error, nothing
\* of the scope's transaction is stored and none of it stays pending, the
\* scope is left, and the same error reaches the caller; when the body did
\* nothing but queries, the store holds the value it held when the scope
\* was entered.  (An in-memory database whose last connection goes with the
\* scope is gone and holds nothing.)
C2_RaiseRollsBack ==
    [][IsExit(last', "raise") =>
          LET t == last'.t
              f == TopFrame(t)
              cs == handles[f.h].st[t]
          IN  /\ StoredAs(stores)
              /\ last'.depth = cs.depth - 1
              /\ (last'.depth = 0 => last'.left = 0)
              /\ Len(scopes'[t]) = Len(scopes[t]) - 1
              /\ last'.out = <<"raise", last'.val, "none">>
              /\ (f.plain => stores'[handles[f.h].store].val = f.v0)]_vars

\* a body wrote a new value inside its scope and raised: the old value stays
C2_Witness ==
    /\ IsExit(last, "raise")
    /\ last.plain
    /\ last.pend # 0
    /\ last.pend # last.v0
    /\ stores[last.store].val = last.v0
    /\ last.out = <<"raise", last.val, "none">>

\* C3: when the body of an atomic function returns, the writes pending in
\* the scope's transaction are stored before the wrapper returns, nothing
\* stays pending, and the wrapper returns the body's value.  (An in-memory
\* database whose last connection goes with the scope is gone after that.)
C3_ReturnCommits ==
    [][IsExit(last', "return") =>
          LET t == last'.t
              f == TopFrame(t)
              cs == handles[f.h].st[t]
              store == handles[f.h].store
          IN  /\ last'.out = <<"return", last'.val, "none">>
              /\ Len(scopes'[t]) = Len(scopes[t]) - 1
              /\ OthersKept(store)
              /\ cs.depth = 1 =>
                    /\ last'.depth = 0
                    /\ last'.left = 0
                    /\ (cs.pend # 0 => ValIs(store, cs.pend))
                    /\ (cs.pend = 0 => StoredAs(stores))]_vars

\* a body wrote a new value through a read-write scope and returned a value
C3_Witness ==
    /\ IsExit(last, "return")
    /\ last.plain
    /\ last.pend # 0
    /\ last.pend # last.v0
    /\ stores[last.store].val = last.pend
    /\ last.val # 0
    /\ last.out = <<"return", last.val, "none">>

\* the exit codes that are not zero, and those that are (sys.exit() without
\* a code ends the process with status zero)
NonZero(code) == code \in {"1", "2"}
Zero(code) == code \in {"0", "None"}

\* C4: when the body of an atomic function raises SystemExit, the pending
\* writes are dropped when the code is not zero and stored when it is zero;
\* either way the transaction has ended when the SystemExit leaves the
\* wrapper, and the SystemExit carries the body's code.  (An in-memory
\* database whose last connection goes with the scope is gone after that.)
C4_ExitSettles ==
    [][IsExit(last', "exit") =>
          LET t == last'.t
              f == TopFrame(t)
              cs == handles[f.h].st[t]
              store == handles[f.h].store
          IN  /\ last'.out = <<"exit", 0, last'.code>>
              /\ Len(scopes'[t]) = Len(scopes[t]) - 1
              /\ OthersKept(store)
              /\ cs.depth = 1 =>
                    /\ last'.depth = 0
                    /\ last'.left = 0
                    /\ (NonZero(last'.code) => StoredAs(stores))
                    /\ (Zero(last'.code) /\ cs.pend # 0 =>
                            ValIs(store, cs.pend))
                    /\ (Zero(last'.code) /\ cs.pend = 0 => StoredAs(stores))
              /\ (NonZero(last'.code) /\ f.plain =>
                        ValIs(store, f.v0))]_vars

\* a body wrote a new value and left by SystemExit: with a code that is not
\* zero the old value stays, with code zero the new value is stored
C4_Witness ==
    /\ IsExit(last, "exit")
    /\ last.plain
    /\ last.pend # 0
    /\ last.pend # last.v0
    /\ last.left = 0 /\ last.depth = 0
    /\ \/ last.code = "2" /\ stores[last.store].val = last.v0
       \/ last.code = "0" /\ stores[last.store].val = last.pend

\* C5: a close() made by a thread that has an atomic scope open fails, and
\* every scope of the thread still has its transaction as it was, open and
\* with the same writes pending.
C5_CloseInScopeFails ==
    [][(last'.op = "close" /\ Len(scopes[last'.t]) > 0) =>
          LET t == last'.t
          IN  /\ last'.exc # "none"
              /\ Len(scopes'[t]) = Len(scopes[t])
              /\ \A k \in 1..Len(scopes[t]) :
                    handles'[scopes'[t][k].h].st[t] =
                        handles[scopes[t][k].h].st[t]]_vars

\* C6: the scopes a thread has open at once are all on one handle: an
\* atomic function called inside an atomic scope joins the transaction of
\* that scope.
C6_NestedJoins ==
    \A t \in Threads : \A k \in 1..Len(scopes[t]) :
        scopes[t][k].h = scopes[t][1].h

(***************************************************************************)
(* Properties of test mode (checked under SpecEnv)                         *)
(***************************************************************************)
\* the production sources under environment env: the two variables, the
\* file CHIMEDBRC names, the default RC files and chimedb.config
ProductionSources(env) ==
    {"CHIMEDB_SQLITE", "CHIMEDBRC", "chimedb.config"}
        \cup Range(DefaultRcFiles)
        \cup (IF HaveEnvvar(env, "CHIMEDBRC") THEN {env["CHIMEDBRC"]} ELSE {})

\* no test source is set
NoTestSource(env) ==
    ~HaveEnvvar(env, "CHIMEDB_TEST_SQLITE") /\ ~HaveEnvvar(env, "CHIMEDB_TEST_RC")

\* the call of record l kept off the production sources, and with
\* CHIMEDB_SQLITE naming an existing store and no test source set it left
\* the thread on the in-memory database and the named store as it was
TestModeKept(l) ==
    /\ l.consulted \cap ProductionSources(environ) = {}
    /\ l.context \notin ProductionSources(environ)
    /\ (/\ HaveEnvvar(environ, "CHIMEDB_SQLITE")
        /\ stores[TargetOf(environ["CHIMEDB_SQLITE"]).store].exists
        /\ NoTestSource(environ)) =>
            /\ l.exc = "none"
            /\ slot'[l.t].ro # None /\ conns'[slot'[l.t].ro].db = MemRO
            /\ slot'[l.t].rw # None /\ conns'[slot'[l.t].rw].db = MemRW
            /\ stores'[TargetOf(environ["CHIMEDB_SQLITE"]).store] =
                   stores[TargetOf(environ["CHIMEDB_SQLITE"]).store]

\* C10 as amended: every connect that is made while test mode is enabled
\* and does not return at once on a cached connection keeps off the
\* production sources and, with CHIMEDB_SQLITE naming an existing store and
\* no test source set, connects both roles to the in-memory database
\* without opening or changing the named store.
C10_TestModeResolution ==
    [][(IsConnect(last') /\ TEST_ENABLE' /\ last'.resolved) =>
            TestModeKept(last')]_vars

\* test mode, CHIMEDB_SQLITE naming an existing store, no test source: the
\* thread is on the in-memory database and the store was never opened
C10_Witness ==
    /\ last.op = "connect" /\ last.resolved /\ TEST_ENABLE
    /\ environ["CHIMEDB_SQLITE"] = "prod.db"
    /\ stores["prod.db"].exists
    /\ NoTestSource(environ)
    /\ last.context = "_TEST_ENABLE"
    /\ conns[slot[last.t].ro].db = MemRO
    /\ conns[slot[last.t].rw].db = MemRW
    /\ ~stores["prod.db"].opened

\* C10: every connect made while test mode is enabled keeps off the
\* production sources and, with CHIMEDB_SQLITE naming an existing store and
\* no test source set, leaves the thread connected to the in-memory
\* database and the named store unopened and unchanged.
C10_EveryConnectInTestMode ==
    [][(IsConnect(last') /\ TEST_ENABLE') => TestModeKept(last')]_vars

(***************************************************************************)
(* Properties of configuration resolution (checked under SpecEnv)          *)
(***************************************************************************)
\* CHIMEDB_TEST_RC names a file whose name contains "chimedbrc": one of
\* the default locations or /w/my_chimedbrc
BadTestRc(env) ==
    env["CHIMEDB_TEST_RC"] \in Range(DefaultRcFiles) \cup {"/w/my_chimedbrc"}

\* the call of record l ended with OSError without reading the file that
\* CHIMEDB_TEST_RC names and without a connection attempt
Rejected(l) ==
    /\ l.exc = "OSError"
    /\ environ["CHIMEDB_TEST_RC"] \notin l.consulted
    /\ l.tried = <<>>

\* C11 as amended: in test mode, with CHIMEDB_TEST_SQLITE not set, every
\* connect that does not return at once on a cached connection rejects a
\* CHIMEDB_TEST_RC whose value contains "chimedbrc": it fails with OSError,
\* never reads the named file and leaves both slots as they were (empty
\* when the thread had no connection).
C11_BadTestRcRejected ==
    [][(/\ IsConnect(last') /\ TEST_ENABLE' /\ BadTestRc(environ)
        /\ last'.resolved
        /\ ~HaveEnvvar(environ, "CHIMEDB_TEST_SQLITE")) =>
            /\ Rejected(last')
            /\ slot'[last'.t] = slot[last'.t]]_vars

\* a first connect in test mode was rejected although the named file holds
\* a valid configuration
C11_Witness ==
    /\ last.op = "connect" /\ TEST_ENABLE /\ BadTestRc(environ)
    /\ files[environ["CHIMEDB_TEST_RC"]] = "sqlite"
    /\ Rejected(last)
    /\ slot[last.t] = [ro |-> None, rw |-> None]

\* C11: in test mode, whenever CHIMEDB_TEST_RC holds a value containing
\* "chimedbrc", connect fails with OSError, never reads the named file and
\* caches no connector in either slot.
C11_AlwaysRejected ==
    [][(IsConnect(last') /\ TEST_ENABLE' /\ BadTestRc(environ)) =>
            /\ Rejected(last')
            /\ slot'[last'.t] = [ro |-> None, rw |-> None]]_vars

(***************************************************************************)
(* Properties of production resolution (checked under SpecRc)              *)
(***************************************************************************)
\* the production sources in the order of the module docstring; the second
\* is the file CHIMEDBRC names ("" when it names none)
SourceOrder(env) ==
    <<"CHIMEDB_SQLITE", env["CHIMEDBRC"]>> \o DefaultRcFiles
        \o <<"chimedb.config">>

\* the file f exists and holds something
FilePresent(f) == f # "" /\ files[f] \notin {"absent", "empty"}

\* the i-th production source is present
SourcePresent(i) ==
    IF i = 1 THEN HaveEnvvar(environ, "CHIMEDB_SQLITE")
    ELSE IF i = Len(SourceOrder(environ)) THEN configMod
    ELSE FilePresent(SourceOrder(environ)[i])

\* the i-th production source was looked at by the call of record l
SourceConsulted(l, i) ==
    \/ SourceOrder(environ)[i] \in l.consulted
    \/ i = 2 /\ "CHIMEDBRC" \in l.consulted

\* the call of record l used the i-th source: the connector lists it tried,
\* if it got that far, are those of that source
SourceUsed(l, i) ==
    l.exc \in {"none", "ConnectionError"} => l.context = SourceOrder(environ)[i]

\* a connect step outside test mode that did not return at once
ProductionResolve(l) == IsConnect(l) /\ l.resolved /\ ~TEST_ENABLE'

\* C12: outside test mode the first production source that is present, in
\* the order CHIMEDB_SQLITE, the CHIMEDBRC file, ./.chimedbrc, ~/.chimedbrc,
\* /etc/chime/chimedbrc, chimedb.config, is the one connect uses, and
\* connect consults no source after it.
C12_FirstPresentSourceUsed ==
    [][ProductionResolve(last') =>
          \A i \in 1..Len(SourceOrder(environ)) :
              (SourcePresent(i) /\ \A j \in 1..(i - 1) : ~SourcePresent(j)) =>
                  /\ SourceUsed(last', i)
                  /\ \A j \in (i + 1)..Len(SourceOrder(environ)) :
                        ~SourceConsulted(last', j)]_vars

\* no source ahead of the fixed RC files is present
NoneAhead == ~SourcePresent(1) /\ ~SourcePresent(2)

\* both ./.chimedbrc and ~/.chimedbrc hold a configuration
BothHold == files["./.chimedbrc"] = "sqlite" /\ files["~/.chimedbrc"] = "sqlite"

\* C13 as amended: among the fixed locations the file in the current
\* directory is read before the one in the home directory, which is read
\* before /etc/chime/chimedbrc; when the first two both hold a
\* configuration and no source ahead of them is present, the connectors
\* are built from the file in the current directory and the file in the
\* home directory is not read.
C13_CurrentDirFirst ==
    [][ProductionResolve(last') =>
          /\ ("~/.chimedbrc" \in last'.consulted =>
                 /\ "./.chimedbrc" \in last'.consulted
                 /\ ~FilePresent("./.chimedbrc"))
          /\ ("/etc/chime/chimedbrc" \in last'.consulted =>
                 /\ "~/.chimedbrc" \in last'.consulted
                 /\ ~FilePresent("~/.chimedbrc"))
          /\ (BothHold /\ NoneAhead =>
                 /\ last'.context = "./.chimedbrc"
                 /\ "~/.chimedbrc" \notin last'.consulted)]_vars

\* both files hold a configuration and the one in the current directory won
C13_Witness ==
    /\ last.op = "connect" /\ last.resolved /\ ~TEST_ENABLE
    /\ BothHold /\ NoneAhead
    /\ last.exc = "none"
    /\ last.context = "./.chimedbrc"
    /\ "~/.chimedbrc" \notin last.consulted

\* C13: when the file in the home directory and the file in the current
\* directory both hold a configuration and no source ahead of them is
\* present, the connectors are built from the file in the home directory.
C13_HomeFirst ==
    [][(ProductionResolve(last') /\ BothHold /\ NoneAhead) =>
            last'.context = "~/.chimedbrc"]_vars

\* every connection attempt of the call l failed, for both roles
NoneConnected(l) == l.tried # <<>> /\ AllFailed(l, FALSE) /\ AllFailed(l, TRUE)

\* the call l consulted no source after the one its connectors came from
NothingAfterSelected(l) ==
    \A i \in 1..Len(SourceOrder(environ)) :
        l.context = SourceOrder(environ)[i] =>
            \A j \in (i+1)..Len(SourceOrder(environ)) : ~SourceConsulted(l, j)

\* C14: a connect whose selected source yields only connectors that fail to
\* connect raises ConnectionError and consults no source after the selected
\* one, even when a later source would work.
C14_AllFailedIsConnectionError ==
    [][(IsConnect(last') /\ last'.resolved /\ NoneConnected(last')) =>
            /\ last'.exc = "ConnectionError"
            /\ NothingAfterSelected(last')]_vars

\* the contents of a file that exists but holds no usable configuration
InvalidKinds == {"nosection", "badtype", "nofields"}

\* the errors that report an invalid configuration
ConfigErrors == {"InvalidConfig", "ValueError", "KeyError"}

\* C15: when the first present source is a file that exists but is invalid
\* (no "chimedb" section, an unknown database type, or fields missing),
\* connect fails with a configuration error, consults no later source and
\* attempts no connection.
C15_InvalidSourceIsHardStop ==
    [][ProductionResolve(last') =>
          \A i \in 2..(Len(SourceOrder(environ)) - 1) :
              (/\ SourceOrder(environ)[i] # ""
               /\ files[SourceOrder(environ)[i]] \in InvalidKinds
               /\ \A j \in 1..(i-1) : ~SourcePresent(j)) =>
                    /\ last'.exc \in ConfigErrors
                    /\ last'.tried = <<>>
                    /\ \A j \in (i+1)..Len(SourceOrder(environ)) :
                           ~SourceConsulted(last', j)]_vars

\* no configuration source of production mode is present
NoSourcePresent == \A i \in 1..Len(SourceOrder(environ)) : ~SourcePresent(i)

\* the base class of each exception class of chimedb.core.exceptions
Base(cls) ==
    CASE cls = "NoRouteToDatabase" -> "ConnectionError"
      [] cls = "ConnectionError" -> "CHIMEdbError"
      [] cls = "CHIMEdbError" -> "RuntimeError"
      [] OTHER -> "Exception"

\* C16: outside test mode, a connect that resolves while no configuration
\* source is present raises NoRouteToDatabase, a subclass of ConnectionError,
\* attempts no connection and leaves both slots of the calling thread as
\* they were.
C16_NoSourceNoRoute ==
    [][(ProductionResolve(last') /\ NoSourcePresent) =>
            /\ last'.exc = "NoRouteToDatabase"
            /\ Base(last'.exc) = "ConnectionError"
            /\ last'.tried = <<>>
            /\ slot'[last'.t] = slot[last'.t]]_vars

\* a connect found no source, with an empty file on the way
C16_Witness ==
    /\ last.op = "connect" /\ last.resolved /\ ~TEST_ENABLE
    /\ NoSourcePresent
    /\ files["./.chimedbrc"] = "empty"
    /\ last.exc = "NoRouteToDatabase"
    /\ last.tried = <<>>
    /\ slot[last.t] = [ro |-> None, rw |-> None]

(***************************************************************************)
(* Properties of queries over both roles (checked under SpecOrm)           *)
(***************************************************************************)
\* the connector in the slot of thread t for a role addresses the in-memory
\* database, read-only for the read-only role
OnMemory(sl, cs, t, rw) ==
    /\ SlotOf(sl, t, rw) # None
    /\ cs[SlotOf(sl, t, rw)].kind = "sqlite"
    /\ TargetOf(cs[SlotOf(sl, t, rw)].db) = [store |-> ":memory:", ro |-> ~rw]

\* C17: in test mode with no test source, a connect that resolves caches for
\* both roles connectors on one in-memory database, and that database lasts
\* only until close(): after a close() and a connect by the same thread,
\* nothing written before the close is in it.
C17_MemoryStoreUntilClose ==
    /\ [][(/\ IsConnect(last') /\ last'.resolved /\ last'.exc = "none"
           /\ TEST_ENABLE' /\ NoTestSource(environ)) =>
                \A rw \in BOOLEAN : OnMemory(slot', conns', last'.t, rw)]_vars
    /\ [][(/\ last.op = "close" /\ last.exc = "none"
           /\ IsConnect(last') /\ last'.t = last.t /\ last'.exc = "none"
           /\ TEST_ENABLE /\ NoTestSource(environ)) =>
                stores'[":memory:"].val = 0]_vars

(***************************************************************************)
(* Properties of the test mode switch (checked under SpecSwitch)           *)
(***************************************************************************)
\* everything but the record of the last call
State == <<TEST_ENABLE, environ, files, RC_FILES, configMod, up, world, orm,
           conns,
           handles, slot, proxy, stores, scopes, pc>>

\* C18: test mode, once enabled, stays enabled over every step (close,
\* reconnect, unsetting CHIMEDB_TEST_ENABLE, test_enable() again); a connect
\* that resolves with CHIMEDB_TEST_ENABLE set enables it; every resolution
\* made by any thread while it is enabled keeps off the production sources;
\* and test_enable() called while it is enabled changes nothing.
C18_TestModeOneWay ==
    /\ [][TEST_ENABLE => TEST_ENABLE']_vars
    /\ [][(/\ IsConnect(last') /\ last'.resolved
           /\ HaveEnvvar(environ, "CHIMEDB_TEST_ENABLE")) => TEST_ENABLE']_vars
    /\ [][(IsConnect(last') /\ last'.resolved /\ TEST_ENABLE) =>
            /\ last'.consulted \cap ProductionSources(environ) = {}
            /\ last'.context \notin ProductionSources(environ)]_vars
    /\ [][(last'.op = "test_enable" /\ TEST_ENABLE) => State' = State]_vars

\* test mode is on with the variable unset, both threads are connected and
\* the second came to the test store by a reconnect although CHIMEDB_SQLITE
\* is set
C18_Witness ==
    /\ TEST_ENABLE
    /\ ~HaveEnvvar(environ, "CHIMEDB_TEST_ENABLE")
    /\ HaveEnvvar(environ, "CHIMEDB_SQLITE")
    /\ slot[1].ro # None
    /\ last.op = "connect" /\ last.t = 2 /\ last.reconnect /\ last.resolved
    /\ last.context = "CHIMEDB_TEST_SQLITE"
    /\ last.exc = "none"

\* the proxy holds the database object of the read-only connector of thread t
OverRO(t) ==
    /\ proxy # None
    /\ slot[t].ro # None
    /\ conns[slot[t].ro].database = proxy

\* the name of the sqlite database as the configuration gives it: the value
\* of CHIMEDB_SQLITE, or else the db field of the RC file
ConfiguredDb ==
    IF HaveEnvvar(environ, "CHIMEDB_SQLITE")
    THEN environ["CHIMEDB_SQLITE"] ELSE "rc.db"

\* the write of the step failed and left every store as it was
WriteRefused ==
    /\ last'.exc = "OperationalError"
    /\ stores'[handles[proxy].store].val = stores[handles[proxy].store].val

\* C19 as amended: for a sqlite database configured outside test mode by
\* CHIMEDB_SQLITE or by an RC file of type sqlite and given as a file path,
\* every write over the read-only role fails with OperationalError and
\* leaves the stored data as it was.  (A name given as a URI is used as it is
\* for both roles.)
C19_PathIsWriteProtected ==
    [][(/\ last'.op = "write" /\ ~TEST_ENABLE /\ OverRO(last'.t)
        /\ ~StartsWithFile(ConfiguredDb)) => WriteRefused]_vars

\* a write over the read-only role of a database given as a path was
\* refused, after a value had been stored over the read-write role
C19_Witness ==
    /\ last.op = "write" /\ ~TEST_ENABLE /\ OverRO(last.t)
    /\ ~StartsWithFile(ConfiguredDb)
    /\ last.exc = "OperationalError"
    /\ handles[proxy].ro
    /\ stores[handles[proxy].store].val # 0
    /\ last.val # 0

\* C19: for a sqlite database configured outside test mode by
\* CHIMEDB_SQLITE or by an RC file of type sqlite, given as a path or as a
\* URI, every write over the read-only role fails with OperationalError and
\* leaves the stored data as it was.
C19_WriteProtected ==
    [][(last'.op = "write" /\ ~TEST_ENABLE /\ OverRO(last'.t))
            => WriteRefused]_vars

\* the proxy holds the database object of the connector of thread t for the
\* role
OverRole(cs, sl, px, t, rw) ==
    /\ px # None
    /\ SlotOf(sl, t, rw) # None
    /\ cs[SlotOf(sl, t, rw)].database = px

\* the store the read-write connector of thread t addresses
RwStore(t) == TargetOf(conns[slot[t].rw].db).store

\* thread t has a connection open on the database object of its read-write
\* connector
RwOpen(t) ==
    /\ slot[t].rw # None
    /\ conns[slot[t].rw].database # None
    /\ handles[conns[slot[t].rw].database].st[t].open

\* the read-only role of the configured database refuses writes: the
\* in-memory database of test mode, or a database given as a path
RoProtected == TEST_ENABLE \/ ~StartsWithFile(ConfiguredDb)

\* the steps of a switch of roles: a connect puts the proxy on the database
\* object of the role asked for; a write over the read-write role stores its
\* value; a connect back to the read-only role, made while the thread's
\* read-write connection is open, leaves the stores as they are; a read over
\* the read-only role returns what the store of the read-write role holds
SwitchSteps ==
    /\ [][(last'.op = "connect_database" /\ last'.exc = "none") =>
            OverRole(conns', slot', proxy', last'.t, last'.rw)]_vars
    /\ [][(/\ last'.op = "write" /\ last'.exc = "none"
           /\ OverRole(conns, slot, proxy, last'.t, TRUE)) =>
                stores'[RwStore(last'.t)].val = last'.val]_vars
    /\ [][(/\ last'.op = "connect_database" /\ ~last'.rw /\ ~last'.reconnect
           /\ RwOpen(last'.t)) =>
                /\ last'.exc = "none"
                /\ stores' = stores]_vars
    /\ [][(/\ last'.op = "read" /\ OverRO(last'.t) /\ slot[last'.t].rw # None) =>
                last'.val = stores[RwStore(last'.t)].val]_vars

\* C20 as amended: switching roles by successive connects of one thread is
\* consistent for a database whose read-only role is write-protected (one
\* given as a path, or the in-memory database of test mode): after a connect
\* for the read-only role, a connect for the read-write role and a write, a
\* connect for the read-only role puts the queries on the read-only role
\* again, where writes fail and a read returns the value written over the
\* read-write role.
C20_SwitchOnProtectedStore ==
    /\ SwitchSteps
    /\ [][(last'.op = "write" /\ OverRO(last'.t) /\ RoProtected)
            => WriteRefused]_vars

\* a thread that wrote over its read-write role is back on the read-only
\* role of a database given as a path, and its read returned the value written
C20_Witness ==
    /\ last.op = "read" /\ OverRO(last.t) /\ RwOpen(last.t)
    /\ ~TEST_ENABLE /\ ~StartsWithFile(ConfiguredDb)
    /\ handles[proxy].ro
    /\ last.val # 0
    /\ last.val = stores[RwStore(last.t)].val

\* C20: after a connect for the read-only role, a connect for the
\* read-write role and a write, a connect for the read-only role puts the
\* queries on the read-only role again, where writes fail and a read returns
\* the value written over the read-write role.
C20_SwitchRoles ==
    /\ SwitchSteps
    /\ [][(last'.op = "write" /\ OverRO(last'.t)) => WriteRefused]_vars

(***************************************************************************)
(* C22, C24: the slots are thread-local                                    *)
(***************************************************************************)
\* C22: a connect, reconnect or close by thread t leaves the RO and the RW
\* slot of every other thread as they were, whatever the threads did before.
C22_SlotsAreThreadLocal ==
    [][\A t \in Threads :
          ((IsConnect(last') \/ last'.op = "close") /\ last'.t = t)
              => \A u \in Threads \ {t} : slot'[u] = slot[u]]_vars

\* thread 1 or 2 closed its connection, or connected anew, while the other
\* thread held one
C22_Witness ==
    /\ last.op \in {"connect", "close"}
    /\ last.t \in Threads
    /\ \E u \in Threads \ {last.t} : slot[u].ro # None /\ slot[u].rw # None
    /\ last.op = "connect" => last.reconnect /\ last.resolved

\* C24: at start current_connector returns None for both roles in every
\* thread, and it keeps returning None for a role of thread t through every
\* step that is not a connect call of t itself: in a thread that has made no
\* connect call both roles give None, and no call raises.
C24_NoConnectNoConnector ==
    /\ \A t \in Threads, rw \in BOOLEAN : current_connector(slot, t, rw) = None
    /\ [][\A t \in Threads, rw \in BOOLEAN :
             (/\ current_connector(slot, t, rw) = None
              /\ ~(IsConnect(last') /\ last'.t = t))
                 => current_connector(slot', t, rw) = None]_vars

\* thread 1 has connected and holds both connectors, thread 2 has nothing
C24_Witness ==
    /\ last.op = "connect" /\ last.t = 1
    /\ slot[1].ro # None /\ slot[1].rw # None
    /\ current_connector(slot, 2, FALSE) = None
    /\ current_connector(slot, 2, TRUE) = None

(***************************************************************************)
(* C23: connectors and handles per thread                                  *)
(***************************************************************************)
\* C23: the connectors in the slots of two different threads are distinct
\* objects, and so are their database handles, whichever source the
\* connectors came from.
C23_NothingShared ==
    LET Held(t) == {slot[t].ro, slot[t].rw} \ {None}
    IN  \A t \in Threads : \A u \in Threads \ {t} :
        /\ Held(t) \cap Held(u) = {}
        /\ \A c \in Held(t), d \in Held(u) :
              conns[c].database # None => conns[c].database # conns[d].database

(***************************************************************************)
(* The broker over tunnelled connectors                                    *)
(***************************************************************************)
\* chimedb.config provides MySQL connectors that tunnel; the process is rank
\* 0 of an MPI job
\* the one thread of a program that does not start any
MainThread == {1}

\* the first connector of either list tunnels, the second one connects
\* directly to a server that is down
Primary == {ConfigRO[1], ConfigRW[1]}

InitTunnel ==
    InitCluster(NoEnv, NoFiles, TRUE, {}, Primary, FALSE, 0, NoRows)


NextTunnel ==
    \/ \E t \in MainThread, reconnect \in BOOLEAN : Connect(t, reconnect)
    \/ \E t \in MainThread : Close(t)
    \/ \E t \in MainThread, c \in Primary : EnsureRoute(t, c)
    \/ \E c \in Primary : NetChange(c)
    \/ \E c \in Primary, v \in SshStates : SshChange(c, v)
    \/ \E c \in Primary : PortChange(c)

SpecTunnel == InitTunnel /\ [][NextTunnel]_vars

(***************************************************************************)
(* C25: the connecting rank                                                *)
(***************************************************************************)
\* the process has no mpi4py, or is rank 0 or rank 1 of an MPI job with
\* ALL_RANKS as imported, or rank 1 of a job whose program set ALL_RANKS
InitRank ==
    \E w \in {<<FALSE, -1>>, <<FALSE, 0>>, <<FALSE, 1>>, <<TRUE, 1>>} :
        InitCluster(NoEnv, NoFiles, TRUE, {}, Primary, w[1], w[2],
                    NoRows)

NextRank ==
    \/ \E t \in Threads, reconnect \in BOOLEAN : Connect(t, reconnect)
    \/ \E t \in Threads : Close(t)
    \/ \E t \in Threads, c \in Primary : EnsureRoute(t, c)
    \/ \E c \in Primary : NetChange(c)

SpecRank == InitRank /\ [][NextRank]_vars

\* MPI is there, this process is not rank 0 and ALL_RANKS is False
NotDesignated == ~ALL_RANKS /\ mpi_rank > 0

\* C25: on a process that is not the connecting rank, connect and
\* ensure_route_to_database return normally, consult no configuration source,
\* attempt no connector, start no forwarder and change no connector, slot or
\* store; on every other process (ALL_RANKS set, no MPI, or rank 0) connect
\* resolves whenever the thread has no connection or asks for a reconnect.
C25_OnlyTheConnectingRank ==
    [][/\ (NotDesignated /\ last'.op \in {"connect", "ensure_route"})
            => /\ last'.exc = "none"
               /\ ~last'.resolved
               /\ last'.consulted = {} /\ last'.tried = <<>>
               /\ last'.kind = "none"
               /\ conns' = conns /\ slot' = slot /\ stores' = stores
       /\ (~NotDesignated /\ last'.op = "connect")
            => /\ last'.resolved <=> (last'.reconnect \/ last'.empty)
               /\ last'.resolved => last'.context = "chimedb.config"]_vars

\* connect was called on rank 1 while the first read-only server was
\* reachable through its tunnel
C25_Witness ==
    /\ NotDesignated
    /\ last.op = "connect"
    /\ conns[ConfigRO[1]].tunnel_host /\ up[ConfigRO[1]]
    /\ ssh[ConfigRO[1]] = "ok"

(***************************************************************************)
(* C26: ensure_route_to_database on a live tunnel                          *)
(***************************************************************************)
\* C26: ensure_route_to_database called on a connector whose previously
\* bound local port answers the probe returns normally, constructs no
\* forwarder and leaves the connector's forwarder and bound port as they were.
C26_LiveTunnelIsKept ==
    [][LET PortAnswers(c) ==
               /\ conns[c].tunnel_port # None
               /\ conns[c].tunnel = "active" \/ foreign[c]
       IN
       \A c \in ConfigIds :
          (last'.op = "ensure_route" /\ last'.left = c /\ PortAnswers(c))
              => /\ last'.exc = "none"
                 /\ last'.kind = "none"
                 /\ conns'[c] = conns[c]]_vars

\* ensure_route_to_database has returned on a connector whose forwarder is
\* active, at a time when a new forwarder could not have been started
C26_Witness ==
    /\ last.op = "ensure_route"
    /\ last.left \in Primary
    /\ conns[last.left].tunnel = "active"
    /\ conns[last.left].tunnel_port # None
    /\ ssh[last.left] = "nostart"
    /\ last.kind = "none"

(***************************************************************************)
(* C27: a failed attempt leaves no forwarder running                       *)
(***************************************************************************)
\* C27: when connect has tried a tunnelled connector and the attempt failed,
\* for whichever reason, the forwarder of that connector is not active once
\* connect has moved on.
C27_FailedAttemptStopsTunnel ==
    [][LET FailedIn(l) ==
               {ConfigList(l.tried[k].rw)[l.tried[k].idx] :
                   k \in {j \in 1..Len(l.tried) : ~l.tried[j].ok}}
       IN
       (last'.op = "connect" /\ last'.context = "chimedb.config")
          => \A c \in FailedIn(last') :
                conns[c].tunnel_host => conns'[c].tunnel # "active"]_vars

(***************************************************************************)
(* C28: the tunnel after the connector's close()                           *)
(***************************************************************************)
\* C28: close() of a tunnelled connector returns without error whatever the
\* state of its forwarder, and afterwards no forwarder of the connector is
\* active and the port it bound earlier is not taken for a live tunnel: the
\* next ensure_route_to_database on the closed connector does not return on
\* the strength of the old port, it sets out to start a new forwarder.
C28_CloseLeavesTunnelDown ==
    [][/\ \A t \in Threads, c \in ConfigIds :
            (/\ last'.op = "close" /\ last'.t = t
             /\ c \in {slot[t].ro, slot[t].rw} /\ conns[c].tunnel_host)
                => /\ last'.exc = "none"
                   /\ conns'[c].tunnel # "active"
                   /\ ~tunnel_active(conns'[c].tunnel_port, foreign'[c])
       /\ \A c \in ConfigIds :
            (/\ last'.op = "ensure_route" /\ last'.left = c
             /\ conns[c].tunnel_host /\ conns[c].tunnel = "none")
                => last'.kind # "none" \/ last'.exc # "none"]_vars

(***************************************************************************)
(* C21: connectdb.close                                                    *)
(***************************************************************************)
\* one thread that connects through the tunnelled connectors of
\* chimedb.config, issues queries and closes, while servers come and go
NextClose ==
    \/ \E t \in MainThread, reconnect \in BOOLEAN : Connect(t, reconnect)
    \/ \E t \in MainThread, rw \in BOOLEAN, reconnect \in BOOLEAN :
          ConnectDatabase(t, rw, reconnect)
    \/ \E t \in MainThread : Read(t)
    \/ \E t \in MainThread : Close(t)
    \/ \E c \in Primary : NetChange(c)

SpecClose == InitTunnel /\ [][NextClose]_vars

\* C21: when close() returns normally both slots of the calling thread are
\* empty, the database object of each connector that was in a slot has no
\* open connection of the thread and the connector's forwarder is not
\* active; close() called with both slots empty returns normally and changes
\* nothing; and a connect called with both slots empty resolves the
\* configuration (in a process that connects at all, see C25).
C21_CloseEmptiesTheThread ==
    [][\A t \in Threads :
        /\ (last'.op = "close" /\ last'.t = t /\ last'.exc = "none")
            => /\ slot'[t] = [ro |-> None, rw |-> None]
               /\ \A c \in {slot[t].ro, slot[t].rw} \ {None} :
                     /\ conns[c].database # None =>
                          ~close(t).handles[conns[c].database].st[t].open
                     /\ conns'[c].tunnel # "active"
        /\ (/\ last'.op = "close" /\ last'.t = t
            /\ slot[t] = [ro |-> None, rw |-> None])
            => /\ last'.exc = "none"
               /\ UNCHANGED <<TEST_ENABLE, RC_FILES, conns, handles, slot,
                              proxy, stores, orm>>
        /\ (IsConnect(last') /\ last'.t = t /\ last'.empty /\ ~NotDesignated)
            => last'.resolved]_vars

\* close() has returned in a thread whose read-only connector had an active
\* forwarder and a database object with an open connection
C21_Witness ==
    /\ last.op = "close" /\ last.exc = "none"
    /\ slot[last.t] = [ro |-> None, rw |-> None]
    /\ conns[ConfigRO[1]].tunnel_port # None
    /\ conns[ConfigRO[1]].tunnel = "none"
    /\ conns[ConfigRO[1]].database = None
    /\ proxy # None

(***************************************************************************)
(* Operations on the name_table models                                     *)
(***************************************************************************)
\* T.get_query_cache(field, val) called by thread t of a program that has
\* connected; val = None is the null value.  The query of a miss goes
\* through the proxy and opens the thread's connection.
Lookup(t, T, field, val) ==
    LET Do(r) ==
            /\ query_cache' = r.cache
            /\ handles' = IF r.queries > 0
                          THEN [handles EXCEPT ![proxy].st[t].open = TRUE]
                          ELSE handles
            /\ stores' = IF r.queries > 0
                         THEN AfterOpen(stores, handles[proxy]) ELSE stores
            /\ last' = [NoCall EXCEPT !.op = "lookup", !.t = t, !.kind = T,
                                      !.code = field, !.val = val,
                                      !.exc = r.exc, !.left = r.row,
                                      !.depth = r.queries]
    IN  /\ pc[t] = "idle"
        /\ proxy # None
        /\ ~LockedByOther(handles, proxy, t)
        /\ Do(get_query_cache(query_cache, T, field, val,
                              tables[handles[proxy].store][T]))
        /\ UNCHANGED <<TEST_ENABLE, environ, files, RC_FILES, configMod, up,
                       world, tables, locals, conns, slot, proxy, scopes, pc>>

\* T.fill_cache() called by thread t
FillCache(t, T) ==
    LET Do(r) ==
            /\ query_cache' = r.cache
            /\ handles' = IF r.queries > 0
                          THEN [handles EXCEPT ![proxy].st[t].open = TRUE]
                          ELSE handles
            /\ stores' = IF r.queries > 0
                         THEN AfterOpen(stores, handles[proxy]) ELSE stores
            /\ last' = [NoCall EXCEPT !.op = "fill_cache", !.t = t,
                                      !.kind = T, !.depth = r.queries]
    IN  /\ pc[t] = "idle"
        /\ proxy # None
        /\ ~LockedByOther(handles, proxy, t)
        /\ Do(fill_cache(query_cache, T, tables[handles[proxy].store][T]))
        /\ UNCHANGED <<TEST_ENABLE, environ, files, RC_FILES, configMod, up,
                       world, tables, locals, conns, slot, proxy, scopes, pc>>

\* T.clear_cache(); the record keeps whether the class was marked as filled
ClearCache(T) ==
    /\ query_cache' = clear_cache(query_cache, T)
    /\ last' = [NoCall EXCEPT !.op = "clear_cache", !.kind = T,
                              !.plain = query_cache[T].filled]
    /\ UNCHANGED <<TEST_ENABLE, environ, files, RC_FILES, configMod, up,
                   world, tables, locals, conns, handles, slot, proxy, stores,
                   scopes, pc>>

\* some client of the database in store s adds the row with id i to the
\* table of T
InsertRow(s, T, i) ==
    /\ stores[s].exists
    /\ ~tables[s][T][i]
    /\ tables' = [tables EXCEPT ![s][T][i] = TRUE]
    /\ last' = [NoCall EXCEPT !.op = "insert"]
    /\ UNCHANGED <<TEST_ENABLE, environ, files, RC_FILES, configMod, up,
                   world, query_cache, locals, conns, handles, slot, proxy,
                   stores, scopes, pc>>

(***************************************************************************)
(* The cache over one sqlite database                                      *)
(***************************************************************************)
\* CHIMEDB_SQLITE names an existing sqlite file
InitCache ==
    InitWith([NoEnv EXCEPT !["CHIMEDB_SQLITE"] = "prod.db"], NoFiles, FALSE,
             {"prod.db"})

NextCache ==
    \/ \E t \in MainThread : ConnectDatabase(t, FALSE, FALSE)
    \/ \E t \in MainThread, T \in ClassNames, field \in Fields,
          val \in {None} \cup Ids : Lookup(t, T, field, val)
    \/ \E t \in MainThread, T \in ClassNames : FillCache(t, T)
    \/ \E T \in ClassNames : ClearCache(T)
    \/ \E T \in ClassNames, i \in Ids : InsertRow("prod.db", T, i)

SpecCache == InitCache /\ [][NextCache]_vars

(***************************************************************************)
(* C29, C30: lookups through the cache                                     *)
(***************************************************************************)
\* C29: a lookup of (T, f, v) that finds nothing cached while v matches a
\* row issues one query, returns the row and caches it; with the row cached a
\* lookup issues no query and returns the cached row; and no step other than
\* clearing the cache of T takes the cached row away or replaces it.  So the
\* lookups of one (T, f, v) between two clears issue one query, the first
\* one, and all return the same row.
C29_OneQueryPerKey ==
    [][LET TableOf(T) == tables[handles[proxy].store][T]
           IsLookup(T, f, v) ==
               /\ last'.op = "lookup" /\ last'.kind = T
               /\ last'.code = f /\ last'.val = v
       IN
       \A T \in ClassNames, f \in Fields, v \in Ids :
        /\ (IsLookup(T, f, v) /\ query_cache[T][f][v] = None
               /\ Get(TableOf(T), f, v) # None)
            => /\ last'.exc = "none"
               /\ last'.depth = 1
               /\ last'.left = Get(TableOf(T), f, v)
               /\ query_cache'[T][f][v] = last'.left
        /\ (IsLookup(T, f, v) /\ query_cache[T][f][v] # None)
            => /\ last'.exc = "none"
               /\ last'.depth = 0
               /\ last'.left = query_cache[T][f][v]
        /\ (query_cache[T][f][v] # None
               /\ ~(last'.op = "clear_cache" /\ last'.kind = T))
            => query_cache'[T][f][v] = query_cache[T][f][v]]_vars

\* a lookup by name was answered from the cache, with the row the first
\* lookup had fetched
C29_Witness ==
    /\ last.op = "lookup" /\ last.code = "name" /\ last.val = 1
    /\ last.depth = 0 /\ last.left = NameOf(1)
    /\ ~query_cache[last.kind].filled

C31_FillCachesEveryRow ==
    [][LET TableOf(T) == tables[handles[proxy].store][T]
           IsFill(T) == last'.op = "fill_cache" /\ last'.kind = T
           IsClear(T) == last'.op = "clear_cache" /\ last'.kind = T
       IN
       \A T \in ClassNames :
        /\ (IsFill(T) /\ ~query_cache[T].filled)
            => /\ last'.depth = 1
               /\ query_cache'[T].filled
               /\ \A i \in Ids : TableOf(T)[i]
                     => /\ query_cache'[T].id[i] = i
                        /\ query_cache'[T].name[NameOf(i)] = i
        /\ (IsFill(T) /\ query_cache[T].filled)
            => /\ last'.depth = 0
               /\ query_cache' = query_cache
        /\ \A f \in Fields, v \in Ids :
              (/\ last'.op = "lookup" /\ last'.kind = T
               /\ last'.code = f /\ last'.val = v
               /\ query_cache[T][f][v] # None)
               => last'.depth = 0 /\ last'.left = query_cache[T][f][v]
        /\ (query_cache[T].filled /\ ~IsClear(T))
            => /\ query_cache'[T].filled
               /\ \A f \in Fields, v \in Ids :
                     query_cache[T][f][v] # None
                        => query_cache'[T][f][v] = query_cache[T][f][v]]_vars

\* the first fill_cache of a class has run on a table that holds every row,
\* with one query, and each row is cached under its id and its name
C31_Witness ==
    /\ last.op = "fill_cache" /\ last.depth = 1
    /\ proxy # None
    /\ \A i \in Ids :
          /\ tables[handles[proxy].store][last.kind][i]
          /\ query_cache[last.kind].id[i] = i
          /\ query_cache[last.kind].name[NameOf(i)] = i
    /\ query_cache[last.kind].filled

\* C32: clear_cache of T leaves the cache of T as it was before anything was
\* cached (no entry, no "__fill_cache__" mark) and the caches of the other
\* classes as they were; and with the cache of T in that state a lookup of a
\* value other than None and a fill_cache of T issue a query.
C32_ClearResetsOneClass ==
    [][\A T \in ClassNames :
        /\ (last'.op = "clear_cache" /\ last'.kind = T)
            => /\ query_cache'[T] = NoClassCache
               /\ \A U \in ClassNames \ {T} : query_cache'[U] = query_cache[U]
        /\ (/\ query_cache[T] = NoClassCache
            /\ last'.kind = T
            /\ \/ last'.op = "fill_cache"
               \/ last'.op = "lookup" /\ last'.val # None)
            => last'.depth = 1]_vars

\* a class that was filled has been cleared while another class is filled
C32_Witness ==
    /\ last.op = "clear_cache" /\ last.plain
    /\ query_cache[last.kind] = NoClassCache
    /\ \E U \in ClassNames \ {last.kind} :
          query_cache[U].filled /\ query_cache[U].id[1] = 1

(***************************************************************************)
(* name_table methods called by several threads                            *)
(***************************************************************************)
\* The methods run statement by statement, another thread running between
\* any two statements.  dict.setdefault, the membership test and the
\* assignment to a key are each one step of the interpreter.

\* T.get_query_cache(field, val) is called by thread t and runs up to the
\* test `val not in column_cache`
LookupCall(t, T, field, val) ==
    /\ pc[t] = "idle"
    /\ proxy # None
    /\ IF val = None
       THEN /\ last' = [NoCall EXCEPT !.op = "lookup", !.t = t, !.kind = T,
                                      !.code = field]
            /\ UNCHANGED <<pc, locals>>
       ELSE /\ pc' = [pc EXCEPT ![t] = IF query_cache[T][field][val] = None
                                       THEN "get" ELSE "return"]
            /\ locals' = [locals EXCEPT ![t] =
                            [NoLocals EXCEPT !.T = T, !.field = field,
                                             !.val = val]]
            /\ UNCHANGED last
    /\ UNCHANGED <<TEST_ENABLE, environ, files, RC_FILES, configMod, up,
                   world, query_cache, tables, conns, handles, slot, proxy,
                   stores, scopes>>

\* cls.get(**{field: val}) in thread t: the query goes through the proxy and
\* opens the thread's connection; DoesNotExist ends the call
LookupGet(t) ==
    LET l == locals[t]
        row == Get(tables[handles[proxy].store][l.T], l.field, l.val)
    IN  /\ pc[t] = "get"
        /\ ~LockedByOther(handles, proxy, t)
        /\ handles' = [handles EXCEPT ![proxy].st[t].open = TRUE]
        /\ stores' = AfterOpen(stores, handles[proxy])
        /\ IF row = None
           THEN /\ pc' = [pc EXCEPT ![t] = "idle"]
                /\ locals' = [locals EXCEPT ![t] = NoLocals]
                /\ last' = [NoCall EXCEPT !.op = "lookup", !.t = t,
                               !.kind = l.T, !.code = l.field, !.val = l.val,
                               !.exc = "DoesNotExist", !.depth = 1]
           ELSE /\ pc' = [pc EXCEPT ![t] = "put"]
                /\ locals' = [locals EXCEPT ![t].row = row, ![t].q = 1]
                /\ UNCHANGED last
        /\ UNCHANGED <<TEST_ENABLE, environ, files, RC_FILES, configMod, up,
                       world, query_cache, tables, conns, slot, proxy, scopes>>

\* column_cache[val] = (the row fetched) in thread t
LookupPut(t) ==
    LET l == locals[t]
    IN  /\ pc[t] = "put"
        /\ query_cache' = column_cache_put(query_cache, l.T, l.field, l.val,
                                           l.row)
        /\ pc' = [pc EXCEPT ![t] = "return"]
        /\ UNCHANGED <<TEST_ENABLE, environ, files, RC_FILES, configMod, up,
                       world, tables, locals, conns, handles, slot, proxy,
                       stores, scopes, last>>

\* return column_cache[val] in thread t
LookupReturn(t) ==
    LET l == locals[t]
    IN  /\ pc[t] = "return"
        /\ pc' = [pc EXCEPT ![t] = "idle"]
        /\ locals' = [locals EXCEPT ![t] = NoLocals]
        /\ last' = [NoCall EXCEPT !.op = "lookup", !.t = t, !.kind = l.T,
                       !.code = l.field, !.val = l.val,
                       !.exc = IF query_cache[l.T][l.field][l.val] = None
                               THEN "KeyError" ELSE "none",
                       !.left = query_cache[l.T][l.field][l.val],
                       !.depth = l.q]
        /\ UNCHANGED <<TEST_ENABLE, environ, files, RC_FILES, configMod, up,
                       world, query_cache, tables, conns, handles, slot,
                       proxy, stores, scopes>>

\* T.fill_cache() is called by thread t and runs up to the test of the
\* "__fill_cache__" mark
FillCall(t, T) ==
    /\ pc[t] = "idle"
    /\ proxy # None
    /\ IF query_cache[T].filled
       THEN /\ last' = [NoCall EXCEPT !.op = "fill_cache", !.t = t,
                                      !.kind = T]
            /\ UNCHANGED <<pc, locals>>
       ELSE /\ pc' = [pc EXCEPT ![t] = "select"]
            /\ locals' = [locals EXCEPT ![t] = [NoLocals EXCEPT !.T = T]]
            /\ UNCHANGED last
    /\ UNCHANGED <<TEST_ENABLE, environ, files, RC_FILES, configMod, up,
                   world, query_cache, tables, conns, handles, slot, proxy,
                   stores, scopes>>

\* cls.select() in thread t: the rows of the table
FillSelect(t) ==
    LET l == locals[t]
        tab == tables[handles[proxy].store][l.T]
    IN  /\ pc[t] = "select"
        /\ ~LockedByOther(handles, proxy, t)
        /\ handles' = [handles EXCEPT ![proxy].st[t].open = TRUE]
        /\ stores' = AfterOpen(stores, handles[proxy])
        /\ pc' = [pc EXCEPT ![t] = "row"]
        /\ locals' = [locals EXCEPT ![t].rows = {i \in Ids : tab[i]},
                                    ![t].q = 1]
        /\ UNCHANGED <<TEST_ENABLE, environ, files, RC_FILES, configMod, up,
                       world, query_cache, tables, conns, slot, proxy, scopes,
                       last>>

\* the loop of fill_cache in thread t takes the next row, in whatever order
\* the database gives them, and stores it under its id; with no row left it
\* sets the mark and returns
FillId(t) ==
    LET l == locals[t]
    IN  /\ pc[t] = "row"
        /\ IF l.rows = {}
           THEN /\ query_cache' = [query_cache EXCEPT ![l.T].filled = TRUE]
                /\ pc' = [pc EXCEPT ![t] = "idle"]
                /\ locals' = [locals EXCEPT ![t] = NoLocals]
                /\ last' = [NoCall EXCEPT !.op = "fill_cache", !.t = t,
                                          !.kind = l.T, !.depth = l.q]
           ELSE /\ \E i \in l.rows :
                      /\ query_cache' =
                            column_cache_put(query_cache, l.T, "id", i, i)
                      /\ locals' = [locals EXCEPT ![t].rows = @ \ {i},
                                                  ![t].cur = i]
                /\ pc' = [pc EXCEPT ![t] = "name"]
                /\ UNCHANGED last
        /\ UNCHANGED <<TEST_ENABLE, environ, files, RC_FILES, configMod, up,
                       world, tables, conns, handles, slot, proxy, stores,
                       scopes>>

\* name_cache[row.name] = row in thread t
FillName(t) ==
    LET l == locals[t]
    IN  /\ pc[t] = "name"
        /\ query_cache' = column_cache_put(query_cache, l.T, "name",
                                           NameOf(l.cur), l.cur)
        /\ pc' = [pc EXCEPT ![t] = "row"]
        /\ locals' = [locals EXCEPT ![t].cur = None]
        /\ UNCHANGED <<TEST_ENABLE, environ, files, RC_FILES, configMod, up,
                       world, tables, conns, handles, slot, proxy, stores,
                       scopes, last>>

\* CHIMEDB_SQLITE names an existing sqlite file in which the table of one
\* model holds any rows
InitThreads ==
    \E rows \in [Ids -> BOOLEAN] :
        InitCluster([NoEnv EXCEPT !["CHIMEDB_SQLITE"] = "prod.db"], NoFiles,
                    FALSE, {"prod.db"}, {}, FALSE, -1,
                    [NoRows EXCEPT !["prod.db"]["band"] = rows])

\* the main thread connects; then every thread looks rows of the model up
\* and fills its cache; nothing clears the cache and nothing writes to the
\* tables
NextThreads ==
    \/ \E t \in MainThread : ConnectDatabase(t, FALSE, FALSE)
    \/ \E t \in Threads, field \in Fields, val \in {None} \cup Ids :
          LookupCall(t, "band", field, val)
    \/ \E t \in Threads : LookupGet(t)
    \/ \E t \in Threads : LookupPut(t)
    \/ \E t \in Threads : LookupReturn(t)
    \/ \E t \in Threads : FillCall(t, "band")
    \/ \E t \in Threads : FillSelect(t)
    \/ \E t \in Threads : FillId(t)
    \/ \E t \in Threads : FillName(t)

SpecThreads == InitThreads /\ [][NextThreads]_vars

\* C33: while threads run lookups and fill_cache in any interleaving, with
\* no clear and no write to the tables: a lookup that returns returns the row
\* matching its (field, value) and leaves it cached under that value; a lookup
\* fails only when no row matches; every cache entry holds the row matching
\* its key; and an entry, once there, is neither removed nor replaced.  So
\* when all calls have returned, every value looked up with success maps to
\* its row.
C33_InterleavedLookups ==
    [][LET Row(T, f, v) == Get(tables[handles'[proxy'].store][T], f, v)
       IN
       /\ \A T \in ClassNames, f \in Fields, v \in Ids :
            /\ query_cache[T][f][v] # None
                 => query_cache'[T][f][v] = query_cache[T][f][v]
            /\ query_cache'[T][f][v] # None
                 => proxy' # None /\ query_cache'[T][f][v] = Row(T, f, v)
       /\ \A t \in Threads :
            /\ (pc[t] = "return" /\ pc'[t] = "idle")
                 => /\ last'.op = "lookup" /\ last'.t = t
                    /\ last'.exc = "none"
                    /\ last'.left = Row(last'.kind, last'.code, last'.val)
                    /\ last'.left # None
                    /\ query_cache'[last'.kind][last'.code][last'.val]
                          = last'.left
            /\ (pc[t] = "get" /\ pc'[t] = "idle")
                 => /\ last'.exc = "DoesNotExist"
                    /\ Row(last'.kind, last'.code, last'.val) = None]_vars

\* a lookup of thread 1 has returned the row it had to query for, while
\* thread 2 has queried for the same value and stored its row too
C33_Witness ==
    /\ last.op = "lookup" /\ last.t = 1 /\ last.exc = "none"
    /\ last.depth = 1
    /\ pc[2] = "return" /\ locals[2].q = 1
    /\ locals[2].T = last.kind /\ locals[2].field = last.code
    /\ locals[2].val = last.val
    /\ query_cache[last.kind][last.code][last.val] = last.left

(***************************************************************************)
(* C34: connect(reconnect=True)                                            *)
(***************************************************************************)
\* C34: a connect(reconnect=True) resolves the configuration whatever the
\* slots hold; when it returns normally each role has an attempt that
\* succeeded during the call; and when every candidate of a role failed
\* during the call it raises ConnectionError.
C34_ReconnectConnectsAnew ==
    [][(IsConnect(last') /\ last'.reconnect)
       => /\ last'.resolved
          /\ \A rw \in BOOLEAN :
               /\ last'.exc = "none"
                    => \E i \in 1..Len(last'.tried) :
                          last'.tried[i].rw = rw /\ last'.tried[i].ok
               /\ (last'.context # "none" /\ AllFailed(last', rw))
                    => last'.exc = "ConnectionError"]_vars

(***************************************************************************)
(* C35: BaseConnector.from_dict                                            *)
(***************************************************************************)
\* the sections from_dict is applied to: any type or none, the database by
\* path, by URI or missing, and any of the other keys there or not (the two
\* passwords together, and the tunnel settings together)
Sections ==
    {[k \in SectionKeys |->
        CASE k = "db_type" -> type
          [] k = "db" -> db
          [] k = "port" -> port
          [] k = "host" -> host
          [] k = "user_ro" -> user_ro
          [] k = "user_rw" -> user_rw
          [] k = "passwd_ro" -> IF passwd THEN "pr" ELSE Absent
          [] k = "passwd_rw" -> IF passwd THEN "pw" ELSE Absent
          [] k = "tunnel_host" -> IF tunnel THEN "gateway" ELSE Absent
          [] k = "tunnel_user" -> IF tunnel THEN "me" ELSE Absent
          [] OTHER -> Absent] :
     type \in {Absent, "sqlite", "SQLite", "mysql", "oracle"},
     db \in {Absent, "prod.db", "file:prod.db"},
     port \in {Absent, "3307", "x"},
     host \in {Absent, "db.host"},
     user_ro \in {Absent, "reader"}, user_rw \in {Absent, "writer"},
     passwd \in BOOLEAN, tunnel \in BOOLEAN}

\* BaseConnector.from_dict(d, context) is called; the record keeps the
\* section and what the call gave
FromDict(d, context) ==
    /\ last' = [NoCall EXCEPT !.op = "from_dict", !.context = context,
                              !.out = <<d, from_dict(d, context)>>]
    /\ UNCHANGED <<TEST_ENABLE, environ, files, RC_FILES, configMod, up,
                   world, orm, conns, handles, slot, proxy, stores, scopes,
                   pc>>

InitDict == InitWith(NoEnv, NoFiles, FALSE, {})

NextDict == \E d \in Sections : FromDict(d, "/w/prod.yaml")

SpecDict == InitDict /\ [][NextDict]_vars

\* C35: from_dict returns one read-only and one read-write connector and the
\* context, or raises and returns nothing.  No db_type means mysql.  A mysql
\* section gives two MySQLConnectors with the section's db, host, port
\* (3306 when there is none) and tunnel settings, the read-only one with
\* user_ro and passwd_ro, the read-write one with user_rw and passwd_rw; it
\* raises when db, host, user_ro or user_rw is missing or the port is no
\* number.  A sqlite section gives two SqliteConnectors on the file of db,
\* the read-write one writable, the read-only one read-only when db is a
\* path and as the URI says when db is a URI; it raises when db is missing.
\* Any other type raises ValueError.
C35_FromDictPair ==
    last.op = "from_dict" =>
        LET d == last.out[1]
            r == last.out[2]
            Of(k, default) == IF d[k] = Absent THEN default ELSE d[k]
            type == Lower(Of("db_type", "MySQL"))
            ro == r.ro[1].obj
            rw == r.rw[1].obj
        IN  /\ r.context = last.context
            /\ IF r.exc = "none"
               THEN Len(r.ro) = 1 /\ Len(r.rw) = 1
               ELSE r.ro = <<>> /\ r.rw = <<>>
            /\ type \notin {"sqlite", "mysql"} => r.exc = "ValueError"
            /\ type = "mysql" =>
                /\ r.exc = "none" <=>
                      /\ \A k \in {"db", "host", "user_ro", "user_rw"} :
                            d[k] # Absent
                      /\ IntOf(Of("port", "3306")) # -1
                /\ r.exc = "none" =>
                      /\ ro.kind = "mysql" /\ rw.kind = "mysql"
                      /\ \A a \in {"db", "host", "port", "tunnel_host",
                                   "tunnel_user", "tunnel_identity"} :
                            ro.args[a] = rw.args[a]
                      /\ ro.args.db = d["db"] /\ ro.args.host = d["host"]
                      /\ ro.args.port = IF d["port"] = Absent THEN 3306
                                        ELSE IntOf(d["port"])
                      /\ ro.args.tunnel_host = Of("tunnel_host", "None")
                      /\ ro.args.tunnel_user = Of("tunnel_user", "None")
                      /\ ro.args.user = d["user_ro"]
                      /\ ro.args.passwd = Of("passwd_ro", "")
                      /\ rw.args.user = d["user_rw"]
                      /\ rw.args.passwd = Of("passwd_rw", "")
            /\ type = "sqlite" =>
                /\ r.exc = "none" <=> d["db"] # Absent
                /\ r.exc = "none" =>
                      /\ ro.kind = "sqlite" /\ rw.kind = "sqlite"
                      /\ TargetOf(ro.db).store = TargetOf(rw.db).store
                      /\ rw.db = d["db"]
                      /\ ~StartsWithFile(d["db"])
                            => TargetOf(ro.db).ro /\ ~TargetOf(rw.db).ro
                      /\ StartsWithFile(d["db"]) => ro.db = d["db"]

\* from_dict has been applied to a section without db_type and port, with a
\* tunnel host, and has returned two connectors
C35_Witness ==
    /\ last.op = "from_dict"
    /\ last.out[1]["db_type"] = Absent /\ last.out[1]["port"] = Absent
    /\ last.out[1]["tunnel_host"] = "gateway"
    /\ last.out[2].exc = "none"
    /\ last.out[2].ro[1].obj.args.port = 3306
    /\ last.out[2].ro[1].obj.args.user = "reader"
    /\ last.out[2].rw[1].obj.args.user = "writer"

\* every section that holds the keys of its type gives one connector per
\* role on the same store, and for a sqlite section the read-only one is
\* opened read-only; a section of another type gives an error and no
\* connector
C35_OnePairReadOnly ==
    last.op = "from_dict" =>
        LET d == last.out[1]
            r == last.out[2]
            type == Lower(IF d["db_type"] = Absent THEN "MySQL"
                          ELSE d["db_type"])
            Complete ==
                /\ d["db"] # Absent
                /\ type = "mysql" =>
                      /\ \A k \in {"host", "user_ro", "user_rw"} :
                            d[k] # Absent
                      /\ d["port"] \in {Absent, "3306", "3307"}
        IN  IF type \notin {"sqlite", "mysql"}
            THEN r.exc # "none" /\ r.ro = <<>> /\ r.rw = <<>>
            ELSE Complete =>
                 /\ r.exc = "none"
                 /\ Len(r.ro) = 1 /\ Len(r.rw) = 1
                 /\ type = "sqlite" =>
                       /\ TargetOf(r.ro[1].obj.db).store
                             = TargetOf(r.rw[1].obj.db).store
                       /\ TargetOf(r.ro[1].obj.db).ro

(***************************************************************************)
(* C36: connect inside an atomic body                                      *)
(***************************************************************************)
\* C36: a write issued by a thread that has an atomic scope open runs on the
\* handle the innermost scope was entered on, inside the transaction the
\* thread has on it, and commits nothing by itself, whatever connect calls
\* the body has made before.
C36_WritesStayInScope ==
    [][(last'.op = "write" /\ scopes[last'.t] # <<>>)
       => /\ proxy = TopFrame(last'.t).h
          /\ handles[proxy].st[last'.t].depth > 0
          /\ \A s \in Stores : stores'[s].val = stores[s].val]_vars

(***************************************************************************)
(* C37: the proxy under several threads                                    *)
(***************************************************************************)
\* C37: a query made by a thread that holds connectors runs on the handle
\* of one of that thread's own connectors, whatever connect calls the other
\* threads have made.
C37_QueriesOnOwnHandle ==
    [][(last'.op \in {"read", "write"}
        /\ slot[last'.t] # [ro |-> None, rw |-> None])
       => \E c \in {slot[last'.t].ro, slot[last'.t].rw} \ {None} :
             conns[c].database = proxy]_vars

(***************************************************************************)
(* C38: a close() that fails                                               *)
(***************************************************************************)
\* C38: a close() that raises leaves both of the thread's connector slots
\* as they were before the call.
C38_FailedCloseKeepsSlots ==
    [][(last'.op = "close" /\ last'.exc # "none") => slot' = slot]_vars

(***************************************************************************)
(* C39: what the broker leaves open                                        *)
(***************************************************************************)
\* chimedb.config with four tunnelled connectors; the servers of both
\* read-only connectors and of the first read-write connector come and go:
\* one thread connects, reconnects, queries and closes
Replaceable == {ConfigRO[1], ConfigRO[2], ConfigRW[1]}

InitReplace ==
    InitCluster(NoEnv, NoFiles, TRUE, {}, ConfigIds, FALSE, 0, NoRows)

NextReplace ==
    \/ \E t \in MainThread, reconnect \in BOOLEAN : Connect(t, reconnect)
    \/ \E t \in MainThread, rw \in BOOLEAN, reconnect \in BOOLEAN :
          ConnectDatabase(t, rw, reconnect)
    \/ \E t \in MainThread : Read(t)
    \/ \E t \in MainThread : Close(t)
    \/ \E c \in Replaceable : NetChange(c)

SpecReplace == InitReplace /\ [][NextReplace]_vars

\* C39: everything a thread has open stays within reach of its close():
\* when every handle the thread has a connection on is the database of a
\* connector in its slots and every active forwarder is of a connector in
\* its slots, this is still so after a connect, connect_database or close
\* call that returns normally, so that after the close nothing is open
\* (for calls that start with both slots empty or both slots set).
C39_NothingLeftOpen ==
    [][LET t == last'.t
           Held(sl) == {sl[t].ro, sl[t].rw} \ {None}
           Tracked(hs, cs, sl) ==
               /\ \A h \in DOMAIN hs :
                     hs[h].st[t].open => \E c \in Held(sl) : cs[c].database = h
               /\ \A c \in DOMAIN cs : cs[c].tunnel = "active" => c \in Held(sl)
       IN  (/\ last'.op \in {"connect", "connect_database", "close"}
            /\ last'.exc = "none"
            /\ (slot[t].ro = None) = (slot[t].rw = None)
            /\ Tracked(handles, conns, slot))
           => Tracked(handles', conns', slot')]_vars

(***************************************************************************)
(* C40: resolution after the environment has changed                       *)
(***************************************************************************)
\* os.environ[name] = value, done by the program between two calls
Putenv(name, value) ==
    /\ environ[name] # value
    /\ environ' = [environ EXCEPT ![name] = value]
    /\ last' = [NoCall EXCEPT !.op = "putenv"]
    /\ UNCHANGED <<TEST_ENABLE, files, RC_FILES, configMod, up, world, orm,
                   conns, handles, slot, proxy, stores, scopes, pc>>

\* the program after import with or without either RC variable, with or
\* without chimedb.config, under any contents of the RC files; it connects,
\* closes, enables test mode and sets and unsets the two RC variables
InitStale ==
    \E rc \in {"", "/w/prod.yaml"}, trc \in {"", "/w/test.yaml"},
       cfg \in BOOLEAN,
       home \in {"absent", "sqlite"}, prod \in {"absent", "sqlite"},
       test \in {"absent", "sqlite"} :
        InitWith([NoEnv EXCEPT !["CHIMEDBRC"] = rc, !["CHIMEDB_TEST_RC"] = trc],
                 [NoFiles EXCEPT !["~/.chimedbrc"] = home,
                                 !["/w/prod.yaml"] = prod,
                                 !["/w/test.yaml"] = test],
                 cfg, {"rc.db"})

NextStale ==
    \/ TestEnable
    \/ \E t \in EnvThreads, reconnect \in BOOLEAN : Connect(t, reconnect)
    \/ \E t \in EnvThreads : Close(t)
    \/ \E name \in {"CHIMEDBRC", "CHIMEDB_TEST_RC"} : Unsetenv(name)
    \/ Putenv("CHIMEDBRC", "/w/prod.yaml")
    \/ Putenv("CHIMEDB_TEST_RC", "/w/test.yaml")

SpecStale == InitStale /\ [][NextStale]_vars

\* C40: a connect that resolves the configuration selects the source, and
\* consults the sources, that a program just started would under the same
\* environment, files and test-mode flag.
C40_ResolutionOfEnvironment ==
    [][(IsConnect(last') /\ last'.resolved)
       => LET fresh == Resolve(TEST_ENABLE', environ, files, DefaultRcFiles,
                               configMod)
          IN  /\ last'.context = fresh.context
              /\ last'.consulted =
                    fresh.consulted \cup {"CHIMEDB_TEST_ENABLE"}]_vars

====
